---- MODULE Spec2Model ----
(***************************************************************************)
(* Model of the kinematic character controller core of kcc_prototyping:    *)
(* sweep_check, SlidePlanes, PlaneType::project_motion and move_and_slide  *)
(* (src/src/move_and_slide.rs), the walkability classifiers, projections   *)
(* and step climber of src/src/character.rs and src/src/floor.rs, and the  *)
(* Character component and movement system of src/src/movement.rs.         *)
(*                                                                         *)
(* Numbers.  f32 scalars are modelled as exact rationals [n, d] (d > 0,    *)
(* lowest terms) and Vec3 as three rationals.  A Dir3 (unit vector) is     *)
(* modelled by the primitive integer vector that points the same way: the  *)
(* normalisation keeps the direction and drops the magnitude.  Everything  *)
(* the code computes from a Dir3 (projection, rejection, dot-product       *)
(* comparisons, cross products) is computed exactly from that              *)
(* representative and its squared length, so no square root is needed.     *)
(* A distance measured along a Dir3 p is the exact linear form             *)
(*     len * |p| + eps * epsilon          (len, eps rational),             *)
(* where |p| is the Euclidean length of p's representative and epsilon is  *)
(* the skin width of the MoveAndSlideConfig.                               *)
(***************************************************************************)
EXTENDS Integers, Sequences, FiniteSets, TLC

----------------------------------------------------------------------------
(* Rational scalars (f32 in the source).                                   *)

Abs(i) == IF i < 0 THEN -i ELSE i

RECURSIVE Gcd(_, _)
Gcd(a, b) == IF b = 0 THEN a ELSE Gcd(b, a % b)

Sign(i) == IF i < 0 THEN -1 ELSE IF i = 0 THEN 0 ELSE 1

R(n, d) ==
    LET g == Gcd(Abs(n), Abs(d))
        s == Sign(d)
    IN  [n |-> (s * n) \div g, d |-> (s * d) \div g]

RInt(i) == [n |-> i, d |-> 1]

RZero == RInt(0)

ROne == RInt(1)

\* The sum is formed over the least common denominator, to keep the
\* intermediate integers small.
RAdd(a, b) ==
    IF a.d = 0 \/ b.d = 0 THEN R(a.n * b.d + b.n * a.d, a.d * b.d)
    ELSE LET g == Gcd(a.d, b.d)
         IN  R(a.n * (b.d \div g) + b.n * (a.d \div g), (a.d \div g) * b.d)

RNeg(a) == [n |-> -a.n, d |-> a.d]

RSub(a, b) == RAdd(a, RNeg(b))

\* The product is formed after cancelling across, for the same reason.
RMul(a, b) ==
    IF a.d = 0 \/ b.d = 0 \/ a.n = 0 \/ b.n = 0 THEN R(a.n * b.n, a.d * b.d)
    ELSE LET g == Gcd(Abs(a.n), b.d)
             h == Gcd(Abs(b.n), a.d)
         IN  R((a.n \div g) * (b.n \div h), (a.d \div h) * (b.d \div g))

RDiv(a, b) == R(a.n * b.d, a.d * b.n)

\* Floor of a rational.
RFloor(a) == a.n \div a.d

\* -1, 0, 1 as a < b, a = b, a > b.  Compared by integer parts and then by
\* the reciprocals of the fractional parts, so that no product is formed.
RECURSIVE RCmp(_, _)
RCmp(a, b) ==
    LET qa == RFloor(a)
        qb == RFloor(b)
        ra == a.n % a.d
        rb == b.n % b.d
    IN  IF qa # qb THEN (IF qa < qb THEN -1 ELSE 1)
        ELSE IF ra = 0 /\ rb = 0 THEN 0
        ELSE IF ra = 0 THEN -1
        ELSE IF rb = 0 THEN 1
        ELSE RCmp([n |-> b.d, d |-> rb], [n |-> a.d, d |-> ra])

RLess(a, b) == RCmp(a, b) < 0

RLeq(a, b) == RCmp(a, b) <= 0

RMax(a, b) == IF RLess(a, b) THEN b ELSE a

----------------------------------------------------------------------------
(* Vec3: three rationals.                                                  *)

V(x, y, z) == [x |-> x, y |-> y, z |-> z]

VInt(x, y, z) == V(RInt(x), RInt(y), RInt(z))

VZero == VInt(0, 0, 0)

VAdd(a, b) == V(RAdd(a.x, b.x), RAdd(a.y, b.y), RAdd(a.z, b.z))

VSub(a, b) == V(RSub(a.x, b.x), RSub(a.y, b.y), RSub(a.z, b.z))

VScale(a, s) == V(RMul(a.x, s), RMul(a.y, s), RMul(a.z, s))

VDot(a, b) == RAdd(RMul(a.x, b.x), RAdd(RMul(a.y, b.y), RMul(a.z, b.z)))

VLenSq(a) == VDot(a, a)

VIsZero(a) == a = VZero

\* The f32 values that are no numbers of the model: n/0 stands for an
\* infinity (n # 0) or a NaN (n = 0).
RInf == [n |-> 1, d |-> 0]

RNaN == [n |-> 0, d |-> 0]

\* Vec3::is_finite
VIsFinite(a) == a.x.d # 0 /\ a.y.d # 0 /\ a.z.d # 0

VCross(a, b) ==
    V(RSub(RMul(a.y, b.z), RMul(a.z, b.y)),
      RSub(RMul(a.z, b.x), RMul(a.x, b.z)),
      RSub(RMul(a.x, b.y), RMul(a.y, b.x)))

----------------------------------------------------------------------------
(* Dir3: the primitive integer vector [x, y, z] pointing along the unit    *)
(* vector.  NoDir is the Err of Dir3::new (a zero, infinite or NaN vector  *)
(* has no direction).                                                      *)

NoDir == [type |-> "InvalidDirection"]

Lcm(a, b) == (a \div Gcd(a, b)) * b

DirOf(x, y, z) ==
    LET g == Gcd(Gcd(Abs(x), Abs(y)), Abs(z))
    IN  [x |-> x \div g, y |-> y \div g, z |-> z \div g]

Dir3New(v) ==
    IF ~VIsFinite(v) \/ VIsZero(v) THEN NoDir
    ELSE LET m == Lcm(Lcm(v.x.d, v.y.d), v.z.d)
         IN  DirOf(v.x.n * (m \div v.x.d), v.y.n * (m \div v.y.d), v.z.n * (m \div v.z.d))

DirVec(p) == VInt(p.x, p.y, p.z)

DirNeg(p) == [x |-> -p.x, y |-> -p.y, z |-> -p.z]

DirLenSq(p) == p.x * p.x + p.y * p.y + p.z * p.z

DirDotInt(p, q) == p.x * q.x + p.y * q.y + p.z * q.z

DirCrossLenSq(p, q) == DirLenSq(p) * DirLenSq(q) - DirDotInt(p, q) * DirDotInt(p, q)

\* p.dot(q) > num/den for unit vectors p, q and 0 < num < den:
\* cos > t  <=>  cos > 0 /\ (1 - t^2) cos^2 > t^2 sin^2, with
\* cos^2 |p|^2 |q|^2 = (p.q)^2 and sin^2 |p|^2 |q|^2 = |p x q|^2 (Lagrange).
DirDotGreater(p, q, num, den) ==
    LET dt == DirDotInt(p, q)
        lhs == (den * den - num * num) * dt * dt
    IN  /\ dt > 0
        /\ DirCrossLenSq(p, q) <= (lhs - 1) \div (num * num)

\* Mutant of RejectFromNormalized: the component along the normal is kept
\* and the tangent part dropped (projection instead of rejection).
RejectAsProjection(motion, p) ==
    VScale(DirVec(p), RDiv(VDot(motion, DirVec(p)), RInt(DirLenSq(p))))

\* motion.reject_from_normalized(*p) = motion - p * motion.dot(p)
RejectFromNormalized(motion, p) ==
    LET pv == DirVec(p)
    IN  VSub(motion, VScale(pv, RDiv(VDot(motion, pv), RInt(DirLenSq(p)))))

\* Mutant of ProjectOntoNormalized: the motion slides on the plane whose
\* normal is the crease direction instead of along the crease.
ProjectAsRejection(motion, p) ==
    VSub(motion, VScale(DirVec(p), RDiv(VDot(motion, DirVec(p)), RInt(DirLenSq(p)))))

\* motion.project_onto_normalized(*p) = p * motion.dot(p)
ProjectOntoNormalized(motion, p) ==
    LET pv == DirVec(p)
    IN  VScale(pv, RDiv(VDot(motion, pv), RInt(DirLenSq(p))))

----------------------------------------------------------------------------
(* Distances along a direction p: len * |p| + eps * epsilon.               *)

Dist(len, eps) == [len |-> len, eps |-> eps]

DistZero == Dist(RZero, RZero)

\* The skin width itself, as a distance.
DistEpsilon == Dist(RZero, ROne)

DistAdd(a, b) == Dist(RAdd(a.len, b.len), RAdd(a.eps, b.eps))

DistSub(a, b) == Dist(RSub(a.len, b.len), RSub(a.eps, b.eps))

\* Sign of a rational.
RSign(a) == Sign(a.n)

\* Sign of len * |p| + eps * epsilon for a Dir3 p and the rational epsilon > 0:
\* when the two terms pull in opposite directions their squares are compared.
DistSign(a, p, epsilon) ==
    LET sl == RSign(a.len)
        se == RSign(a.eps)
        l2 == RMul(RMul(a.len, a.len), RInt(DirLenSq(p)))
        e2 == RMul(RMul(a.eps, a.eps), RMul(epsilon, epsilon))
    IN  IF sl = 0 THEN se
        ELSE IF se = 0 \/ se = sl THEN sl
        ELSE IF RLess(e2, l2) THEN sl
        ELSE IF RLess(l2, e2) THEN se
        ELSE 0

DistLeq(a, b, p, epsilon) == DistSign(DistSub(a, b), p, epsilon) <= 0

\* Dir3::new_and_length(v): the direction and the length of v.  With p the
\* representative of the direction, v = k * p for a rational k > 0 and the
\* length of v is k * |p|.
Dir3NewAndLength(v) ==
    IF VIsZero(v) THEN NoDir
    ELSE LET p == Dir3New(v)
             k == IF p.x # 0 THEN RDiv(v.x, RInt(p.x))
                  ELSE IF p.y # 0 THEN RDiv(v.y, RInt(p.y))
                  ELSE RDiv(v.z, RInt(p.z))
         IN  [direction |-> p, length |-> Dist(k, RZero)]

\* A distance with a non-zero epsilon part is not a rational multiple of |p|:
\* no value of the model stands for it, and evaluating it is an error.
NotRepresentable == CHOOSE r \in {} : TRUE

\* direction * distance, for a distance that is a multiple of |direction|.
DirTimes(p, dist) ==
    IF dist.eps = RZero THEN VScale(DirVec(p), dist.len) ELSE NotRepresentable

\* a / b for two distances along the same direction.
DistRatio(a, b) ==
    IF a.eps = RZero /\ b.eps = RZero THEN RDiv(a.len, b.len) ELSE NotRepresentable

----------------------------------------------------------------------------
(* sweep_check                                                             *)

None == [type |-> "None"]

Panic == [type |-> "Panic"]

\* sweep_check, after the shape cast has answered `cast` (None or a hit):
\* the safe distance is the hit distance minus epsilon.
SweepCheck(cast) ==
    IF cast = None THEN None
    ELSE [safe_distance |-> DistSub(cast.distance, DistEpsilon), hit |-> cast]

----------------------------------------------------------------------------
(* SlidePlanes and PlaneType                                               *)

InsertThresholdNum == 99

InsertThresholdDen == 100

SimilarityThresholdNum == 999

SimilarityThresholdDen == 1000

\* similar_plane(normal1, normal2), for unit normals.
SimilarPlane(p, q) == DirDotGreater(p, q, SimilarityThresholdNum, SimilarityThresholdDen)

PlaneOf(normal) == [type |-> "Plane", normal |-> normal]

CreaseOf(crease, previous, current) ==
    [type |-> "Crease", crease |-> crease, planes |-> <<previous, current>>]

CornerOf(a, b, c) == [type |-> "Corner", planes |-> <<a, b, c>>]

\* Mutant of PlaneTypeOf: a Crease names its two planes the other way round.
PlaneTypeOfSwapped(list) ==
    LET n == Len(list)
    IN  IF n = 0 THEN None
        ELSE IF n = 1 THEN PlaneOf(list[1])
        ELSE IF n = 2 THEN
            LET crease == Dir3New(VCross(DirVec(list[1]), DirVec(list[2])))
            IN  IF crease = NoDir THEN Panic
                ELSE CreaseOf(crease, list[2], list[1])
        ELSE CornerOf(list[n - 2], list[n - 1], list[n])

\* SlidePlanes::plane_type: None, Some(PlaneType), or Panic when the unwrap
\* of Dir3::new(previous.cross(current)) fails.
PlaneTypeOf(list) ==
    LET n == Len(list)
    IN  IF n = 0 THEN None
        ELSE IF n = 1 THEN PlaneOf(list[1])
        ELSE IF n = 2 THEN
            LET crease == Dir3New(VCross(DirVec(list[1]), DirVec(list[2])))
            IN  IF crease = NoDir THEN Panic
                ELSE CreaseOf(crease, list[1], list[2])
        ELSE CornerOf(list[n - 2], list[n - 1], list[n])

\* Mutant of InsertSimilar: only an identical normal counts as a duplicate.
InsertSimilarOnlyEqual(n, normal) == n = normal

\* The uniqueness test of SlidePlanes::insert: n.dot(*normal) > 1.0 - 0.01.
InsertSimilar(n, normal) == DirDotGreater(n, normal, InsertThresholdNum, InsertThresholdDen)

\* SlidePlanes::insert(normal) on the list `list`: the list afterwards and
\* what the call returns (None, Some(PlaneType)) or Panic.
Insert(list, normal) ==
    LET p == Dir3New(normal)
    IN  IF p = NoDir THEN [planes |-> list, result |-> Panic]
        ELSE IF \E i \in 1..Len(list) : InsertSimilar(list[i], p)
             THEN [planes |-> list, result |-> None]
        ELSE [planes |-> Append(list, p), result |-> PlaneTypeOf(Append(list, p))]

\* Mutant of PlaneProjectMotion: a Corner leaves the motion as it is.
PlaneProjectMotionKeepsCorner(plane, motion) ==
    IF plane.type = "Plane" THEN RejectFromNormalized(motion, plane.normal)
    ELSE IF plane.type = "Crease" THEN ProjectOntoNormalized(motion, plane.crease)
    ELSE motion

\* PlaneType::project_motion
PlaneProjectMotion(plane, motion) ==
    IF plane.type = "Plane" THEN RejectFromNormalized(motion, plane.normal)
    ELSE IF plane.type = "Crease" THEN ProjectOntoNormalized(motion, plane.crease)
    ELSE VZero

\* Slide::project_motion
SlideProjectMotion(slide) ==
    [translation |-> slide.translation,
     velocity |-> PlaneProjectMotion(slide.plane, slide.velocity),
     elapsed_time |-> RZero]

----------------------------------------------------------------------------
(* move_and_slide                                                          *)

VARIABLES
    pc,                 \* "idle", "loop" (at the head of the substep loop), "done", "panic"
    args,               \* the arguments of the running call
    translation,        \* local `translation`
    velocity,           \* local `velocity`
    remaining_time,     \* local `remaining_time`
    original_direction, \* local `original_direction`
    planes,             \* local `planes` (SlidePlanes), a sequence of Dir3
    substep,            \* number of loop iterations started so far
    result,             \* the MoveAndSlideResult returned, or None
    slide,              \* the Slide handed to the last on_hit invocation, or None
    sweeps,             \* history: sweep_check calls issued by the running call
    on_hits,            \* history: on_hit invocations of the running call
    reported,           \* history: the normals the sweeps of the running call reported
    probe,              \* the last application of a pure function (the function specs)
    log,                \* history: one entry per sweep of the running call
    earlier,            \* history: the calls that returned before the running one
    character,          \* the Character component: velocity, ground, up
    transform,          \* Transform.translation of the character's entity
    new_ground,         \* local `new_ground` of the running movement tick
    move_accel,         \* local `move_accel` of the running movement tick
    attempts,           \* history: the try_step_up_on_hit calls of the running tick
    started,            \* history: the Character and translation the tick began with
    ticks,              \* history: number of movement ticks run so far
    jumps,              \* history: jump impulses applied since the last tick ended
    components          \* the marker components of the character and of its camera

\* The state of the movement system.
moveVars ==
    <<character, transform, new_ground, move_accel, attempts, started, ticks, jumps,
      components>>

vars == <<pc, args, translation, velocity, remaining_time, original_direction, planes,
          substep, result, slide, sweeps, on_hits, reported, probe, log, earlier,
          character, transform, new_ground, move_accel, attempts, started, ticks, jumps,
          components>>

\* MoveAndSlideConfig::default().max_substeps
DefaultMaxSubsteps == 4

\* Largest max_substeps a call is given.
MaxSubsteps == 4

\* MoveAndSlideConfig::default().epsilon = 0.01
DefaultEpsilon == R(1, 100)

\* config.epsilon values a call is given
Epsilons == {DefaultEpsilon, ROne}

Origins == {VInt(0, 0, 0)}

\* (0, 0, 0) and (NaN, 0, 0) are degenerate velocities.
Velocities == {VInt(0, 0, 0), V(RNaN, RZero, RZero), VInt(1, -1, 0), VInt(2, -1, 2)}

DeltaTimes == {R(1, 2), ROne}

\* Normals a shape cast reports (any positive multiple of the unit normal);
\* (0, 0, 0) is a degenerate normal.
HitNormals ==
    {VInt(0, 1, 0), VInt(0, -1, 0), VInt(-1, 0, 0), VInt(0, 0, -1), VInt(-1, 8, 0),
     VInt(0, 0, 0)}

\* Where along the sweep a hit lies: the safe distance as a fraction of
\* max_distance (the hit distance is that plus epsilon).
HitFractions == {R(-1, 2), R(1, 2)}

\* "project_motion" is Slide::project_motion; "custom" is a caller's closure
\* that lets the character keep its velocity and may consume time; "bounce"
\* is a closure that reverses the velocity.
OnHitKinds == {"project_motion", "custom", "bounce"}

\* elapsed_time values a custom callback returns
CustomElapsed == {RZero, R(1, 2)}

\* The calls explored.  The closures are explored with the default skin
\* width only.
Args ==
    {a \in [origin : Origins, velocity : Velocities, delta_time : DeltaTimes,
            max_substeps : 0..MaxSubsteps, epsilon : Epsilons, on_hit : OnHitKinds] :
        a.on_hit # "project_motion" => a.epsilon = DefaultEpsilon}

\* What spatial_query.cast_shape may answer for a cast along `direction` with
\* ShapeCastConfig.max_distance = `max_distance`: nothing, or a hit with one
\* of `normals` at one of `distances`, provided it lies in [0, max_distance].
CastShapeAmong(normals, distances, direction, max_distance, epsilon) ==
    {None} \cup
    {h \in [normal : normals, distance : distances] :
        /\ DistSign(h.distance, direction, epsilon) >= 0
        /\ DistLeq(h.distance, max_distance, direction, epsilon)}

\* The answers explored in move_and_slide: the hit lies at epsilon plus a
\* fraction of the sweep's length (`max_distance` is that length plus epsilon).
CastShape(direction, max_distance, epsilon) ==
    CastShapeAmong(HitNormals,
                   {Dist(RMul(f, max_distance.len), ROne) : f \in HitFractions},
                   direction, max_distance, epsilon)

\* The results an on_hit callback may return for `slide`.
OnHit(kind, s) ==
    IF kind = "project_motion" THEN {SlideProjectMotion(s)}
    ELSE IF kind = "bounce"
    THEN {[translation |-> s.translation, velocity |-> VScale(s.velocity, RInt(-1)),
           elapsed_time |-> RZero]}
    ELSE [translation : {s.translation}, velocity : {s.velocity},
          elapsed_time : CustomElapsed]

MoveAndSlideResult(t, v, rt, list, origin) ==
    [translation |-> t, applied_motion |-> VSub(t, origin), velocity |-> v,
     remaining_time |-> rt, plane |-> PlaneTypeOf(list)]

\* impl Default for Character
DefaultCharacter == [velocity |-> VZero, ground |-> None, up |-> DirOf(0, 1, 0)]

\* The character is not Frozen; its camera is a MainCamera, which requires
\* FollowOrigin, and has no FlyingCamera.
DefaultComponents == [Frozen |-> FALSE, FlyingCamera |-> FALSE, FollowOrigin |-> TRUE]

\* The movement system has not run yet.
MoveIdle ==
    /\ character = DefaultCharacter
    /\ transform = VZero
    /\ new_ground = None
    /\ move_accel = VZero
    /\ attempts = <<>>
    /\ started = None
    /\ ticks = 0
    /\ jumps = 0
    /\ components = DefaultComponents

\* No call of move_and_slide has been made yet.
SlideIdle(p) ==
    /\ pc = p
    /\ args = None
    /\ translation = VZero
    /\ velocity = VZero
    /\ remaining_time = RZero
    /\ original_direction = NoDir
    /\ planes = <<>>
    /\ substep = 0
    /\ result = None
    /\ slide = None
    /\ sweeps = 0
    /\ on_hits = 0
    /\ reported = {}
    /\ probe = None
    /\ log = <<>>
    /\ earlier = <<>>

\* Nothing has been called yet; `p` names what this run is about to call.
IdleState(p) == SlideIdle(p) /\ MoveIdle

Init == IdleState("idle")

\* Mutant of EarlyResult: the degenerate call reports its time as used up.
EarlyResultTimeUsed(a) ==
    [translation |-> a.origin, velocity |-> a.velocity, remaining_time |-> RZero,
     plane |-> None, applied_motion |-> VZero]

\* The result returned for a degenerate velocity.
EarlyResult(a) ==
    [translation |-> a.origin, velocity |-> a.velocity, remaining_time |-> a.delta_time,
     plane |-> None, applied_motion |-> VZero]

\* Mutant of NewPlanes: the normals of the call before are kept.
NewPlanesKept(old) == old

\* let mut planes = SlidePlanes(Vec::with_capacity(4))
NewPlanes(old) == <<>>

\* Entry of move_and_slide with the arguments `a`, up to the loop; a
\* degenerate velocity returns at once.
Enter(a) ==
    /\ args' = a
    /\ translation' = a.origin
    /\ velocity' = a.velocity
    /\ remaining_time' = a.delta_time
    /\ original_direction' = Dir3New(a.velocity)
    /\ planes' = NewPlanes(planes)
    /\ substep' = 0
    /\ slide' = None
    /\ sweeps' = 0
    /\ on_hits' = 0
    /\ reported' = {}
    /\ log' = <<>>
    /\ IF Dir3New(a.velocity) = NoDir
       THEN /\ pc' = "done"
            /\ result' = EarlyResult(a)
       ELSE /\ pc' = "loop"
            /\ result' = None
    /\ UNCHANGED probe
    /\ UNCHANGED moveVars

\* A call of move_and_slide.
Call ==
    \E a \in Args :
        /\ pc = "idle"
        /\ Enter(a)
        /\ UNCHANGED earlier

\* The return statement after the loop.
Finish(t, v, rt, list) ==
    /\ pc' = "done"
    /\ result' = MoveAndSlideResult(t, v, rt, list, args.origin)

Motion == VScale(velocity, remaining_time)

\* The shape cast of the sweep about to be issued.
Query(direction, max_distance) ==
    [origin |-> translation, direction |-> direction, max_distance |-> max_distance]

\* The call before was given the same arguments, and its sweep at this
\* position was the same shape cast.
SameAsBefore(query) ==
    /\ earlier # <<>>
    /\ earlier[Len(earlier)].args = args
    /\ Len(log) < Len(earlier[Len(earlier)].log)
    /\ earlier[Len(earlier)].log[Len(log) + 1].query = query

\* What the shape cast of this sweep answers: the world does not change
\* between calls, so a cast repeated from the call before is answered alike.
Answers(direction, max_distance) ==
    IF SameAsBefore(Query(direction, max_distance))
    THEN {earlier[Len(earlier)].log[Len(log) + 1].cast}
    ELSE CastShape(direction, DistAdd(max_distance, DistEpsilon), args.epsilon)

\* What on_hit returns for `s`: a closure handed the Slide it was handed at
\* this position of the call before returns what it returned then.
OnHitResults(query, s) ==
    IF /\ SameAsBefore(query)
       /\ earlier[Len(earlier)].log[Len(log) + 1].slide = s
    THEN {earlier[Len(earlier)].log[Len(log) + 1].slide_result}
    ELSE OnHit(args.on_hit, s)

\* One sweep of the running call, for the log.
LogEntry(query, cast, s, slide_result) ==
    [query |-> query, velocity |-> velocity, cast |-> cast, slide |-> s,
     slide_result |-> slide_result]

\* Mutant of AgainstOriginal: a velocity at right angles to the original
\* direction does not stop the loop.
AgainstOriginalStrictly(v, direction) == RLess(VDot(v, DirVec(direction)), RZero)

\* velocity.dot(*original_direction) <= 0.0
AgainstOriginal(v, direction) == RLeq(VDot(v, DirVec(direction)), RZero)

\* Mutant of InLoop: the loop runs one iteration too many.
InLoopOffByOne(i, max_substeps) == i <= max_substeps

\* for _ in 0..config.max_substeps: another iteration starts after i iterations.
InLoop(i, max_substeps) == i < max_substeps

\* Mutant of NoHitTranslation: the remaining distance is not travelled.
NoHitTranslationStays(t, direction, max_distance) == t

\* No collision, move the full remaining distance.
NoHitTranslation(t, direction, max_distance) == VAdd(t, DirTimes(direction, max_distance))

\* The loop ends without a sweep: max_substeps iterations are done, or
\* velocity * remaining_time has no direction.
LoopExit ==
    /\ pc = "loop"
    /\ \/ ~InLoop(substep, args.max_substeps)
       \/ Dir3NewAndLength(Motion) = NoDir
    /\ Finish(translation, velocity, remaining_time, planes)
    /\ UNCHANGED <<args, translation, velocity, remaining_time, original_direction,
                   planes, substep, slide, sweeps, on_hits, reported, probe, log, earlier>>
    /\ UNCHANGED moveVars

\* One iteration whose sweep hits nothing.
SweepNoHit ==
    /\ pc = "loop"
    /\ InLoop(substep, args.max_substeps)
    /\ Dir3NewAndLength(Motion) # NoDir
    /\ LET nl == Dir3NewAndLength(Motion)
           t1 == NoHitTranslation(translation, nl.direction, nl.length)
       IN  /\ None \in Answers(nl.direction, nl.length)
           /\ SweepCheck(None) = None
           /\ translation' = t1
           /\ log' = Append(log, LogEntry(Query(nl.direction, nl.length), None, None, None))
           /\ Finish(t1, velocity, remaining_time, planes)
    /\ substep' = substep + 1
    /\ sweeps' = sweeps + 1
    /\ UNCHANGED <<args, velocity, remaining_time, original_direction, planes, slide,
                   on_hits, reported, probe, earlier>>
    /\ UNCHANGED moveVars

\* One iteration whose sweep hits: advance to the hit, insert the normal,
\* call on_hit unless the normal was rejected, test the early exit.
SweepHit ==
    /\ pc = "loop"
    /\ InLoop(substep, args.max_substeps)
    /\ Dir3NewAndLength(Motion) # NoDir
    /\ LET nl == Dir3NewAndLength(Motion)
           direction == nl.direction
           max_distance == nl.length
           query == Query(direction, max_distance)
       IN  \E cast \in Answers(direction, max_distance) \ {None} :
             LET sc == SweepCheck(cast)
                 safe_movement == sc.safe_distance
                 rt1 == RMul(remaining_time,
                             RSub(ROne, DistRatio(safe_movement, max_distance)))
                 t1 == VAdd(translation, DirTimes(direction, safe_movement))
                 ins == Insert(planes, sc.hit.normal)
             IN  /\ sweeps' = sweeps + 1
                 /\ substep' = substep + 1
                 /\ reported' = reported \cup {sc.hit.normal}
                 /\ planes' = ins.planes
                 /\ IF ins.result = Panic
                    THEN /\ pc' = "panic"
                         /\ translation' = t1
                         /\ remaining_time' = rt1
                         /\ log' = Append(log, LogEntry(query, cast, None, None))
                         /\ UNCHANGED <<velocity, slide, on_hits, result>>
                    ELSE IF ins.result = None
                    THEN /\ translation' = t1
                         /\ remaining_time' = rt1
                         /\ log' = Append(log, LogEntry(query, cast, None, None))
                         /\ UNCHANGED <<pc, velocity, slide, on_hits, result>>
                    ELSE LET s == [hit |-> sc.hit, plane |-> ins.result,
                                   translation |-> t1, velocity |-> velocity,
                                   direction |-> direction,
                                   incoming_motion |-> safe_movement,
                                   remaining_motion |-> DistSub(max_distance, safe_movement)]
                         IN  \E slide_result \in OnHitResults(query, s) :
                               LET rt2 == RMax(RSub(rt1, slide_result.elapsed_time), RZero)
                               IN  /\ slide' = s
                                   /\ log' = Append(log, LogEntry(query, cast, s,
                                                                  slide_result))
                                   /\ on_hits' = on_hits + 1
                                   /\ translation' = slide_result.translation
                                   /\ velocity' = slide_result.velocity
                                   /\ remaining_time' = rt2
                                   /\ IF AgainstOriginal(slide_result.velocity,
                                                         original_direction)
                                      THEN Finish(slide_result.translation,
                                                  slide_result.velocity, rt2, ins.planes)
                                      ELSE UNCHANGED <<pc, result>>
    /\ UNCHANGED <<args, original_direction, probe, earlier>>
    /\ UNCHANGED moveVars

Next == Call \/ LoopExit \/ SweepNoHit \/ SweepHit

Spec == Init /\ [][Next]_vars

----------------------------------------------------------------------------
(* move_and_slide called tick after tick.  The function keeps nothing      *)
(* between calls: the variables of the call before are what is left in     *)
(* memory when the next call starts.                                       *)

\* Largest number of calls in a run.
MaxTicks == 3

\* max_substeps of the calls that are repeated
TickSubsteps == {0, 3}

\* The first call of a run of ticks.
TickArgs ==
    {a \in Args : /\ a.max_substeps \in TickSubsteps
                  /\ a.delta_time = ROne
                  /\ a.epsilon = DefaultEpsilon}

FirstCall ==
    \E a \in TickArgs :
        /\ pc = "idle"
        /\ Enter(a)
        /\ UNCHANGED earlier

\* The arguments of the tick after a call that returned: the same call once
\* more, or, for a character that has come to rest, the next tick from
\* where the call left it.
NextTickArgs ==
    {args} \cup
    {[args EXCEPT !.origin = result.translation, !.velocity = result.velocity] :
         x \in IF Dir3New(result.velocity) = NoDir THEN {TRUE} ELSE {}}

CallAgain ==
    /\ pc = "done"
    /\ Len(earlier) + 1 < MaxTicks
    /\ \E a \in NextTickArgs : Enter(a)
    /\ earlier' = Append(earlier, [args |-> args, log |-> log, result |-> result])

NextTicks == FirstCall \/ CallAgain \/ LoopExit \/ SweepNoHit \/ SweepHit

SpecTicks == Init /\ [][NextTicks]_vars

----------------------------------------------------------------------------
(* SlidePlanes::insert on its own: any sequence of inserts into a set that *)
(* starts empty.                                                           *)

\* Largest number of normals stored before the inserts stop.
MaxStored == 3

\* Normals given to insert: the angles to (0, 1, 0) have cosines
\* 0.98995 (-1,7,0), 0.99228 (-1,8,0), 0.99504 (-1,10,0), 0.99897 (-1,22,0)
\* and 0.99906 (-1,23,0); the zero vector is a degenerate normal.
InsertNormals ==
    {VInt(0, 1, 0), VInt(-1, 7, 0), VInt(-1, 8, 0), VInt(-1, 10, 0), VInt(-1, 22, 0),
     VInt(-1, 23, 0), VInt(0, -1, 0), VInt(1, 0, 0), VInt(0, 0, 0)}

InitInsert == IdleState("insert")

InsertCall ==
    \E normal \in InsertNormals :
        LET ins == Insert(planes, normal)
        IN  /\ pc = "insert"
            /\ Len(planes) < MaxStored
            /\ planes' = ins.planes
            /\ probe' = [type |-> "insert", normal |-> normal, before |-> planes,
                         result |-> ins.result]
            /\ pc' = IF ins.result = Panic THEN "panic" ELSE "insert"
            /\ UNCHANGED <<args, translation, velocity, remaining_time, original_direction,
                           substep, result, slide, sweeps, on_hits, reported, log, earlier>>
            /\ UNCHANGED moveVars

SpecInsert == InitInsert /\ [][InsertCall]_vars

----------------------------------------------------------------------------
(* sweep_check on its own: one call, for any answer of the shape cast.     *)

SweepDirections == {DirOf(1, 0, 0), DirOf(0, -1, 0), DirOf(1, -1, 0), DirOf(2, -1, 2)}

\* max_distance, as multiples of the length of the direction's representative
SweepLengths == {R(1, 100), R(1, 2), ROne}

\* Hit distances: a fraction of max_distance, plus epsilon or not.
SweepFractions == {R(-1, 2), RZero, R(1, 2), ROne}

InitSweep == IdleState("sweep")

SweepCheckCall ==
    \E direction \in SweepDirections, k \in SweepLengths, epsilon \in Epsilons :
        LET max_distance == Dist(k, RZero)
        IN  \E cast \in CastShapeAmong({VInt(0, 1, 0)},
                                       {Dist(RMul(f, k), e) :
                                            f \in SweepFractions, e \in {RZero, ROne}},
                                       direction, DistAdd(max_distance, DistEpsilon),
                                       epsilon) :
              /\ pc = "sweep"
              /\ pc' = "done"
              /\ probe' = [type |-> "sweep_check", direction |-> direction,
                           max_distance |-> max_distance, epsilon |-> epsilon,
                           cast |-> cast, out |-> SweepCheck(cast)]
              /\ UNCHANGED <<args, translation, velocity, remaining_time,
                             original_direction, planes, substep, result, slide, sweeps,
                             on_hits, reported, log, earlier>>
              /\ UNCHANGED moveVars

SpecSweep == InitSweep /\ [][SweepCheckCall]_vars

----------------------------------------------------------------------------
(* Walkability: is_walkable, Ground::new_if_walkable, Floor::new_if_walkable *)

\* An angle in [0, pi] is kept as the signed square of its cosine,
\* c = sgn(cos) * cos^2 in [-1, 1], which falls strictly as the angle grows;
\* nan marks the NaN that angle_between returns for a zero vector.
Angle(c) == [nan |-> FALSE, c |-> c]

AngleNaN == [nan |-> TRUE, c |-> RZero]

\* a.angle_between(b) = acos(a.dot(b) / sqrt(|a|^2 |b|^2)): 0/0 for a zero
\* vector, inf/inf or NaN for an infinite or NaN one.
AngleBetween(a, b) ==
    IF ~VIsFinite(a) \/ ~VIsFinite(b) \/ VIsZero(a) \/ VIsZero(b) THEN AngleNaN
    ELSE LET dt == VDot(a, b)
         IN  Angle(RDiv(RMul(dt, [n |-> Abs(dt.n), d |-> dt.d]),
                        RMul(VLenSq(a), VLenSq(b))))

\* Mutant of AngleLess: a NaN angle is compared like a number.
AngleLessIgnoringNaN(a, b) == RLess(b.c, a.c)

\* a < b and a > b on f32 angles: false when either is NaN.
AngleLess(a, b) == ~a.nan /\ ~b.nan /\ RLess(b.c, a.c)

AngleGreater(a, b) == AngleLess(b, a)

\* EXAMPLE_WALKABLE_ANGLE = PI / 4: cos^2 = 1/2
ExampleWalkableAngle == Angle(R(1, 2))

\* is_walkable(normal, up, walkable_angle)
IsWalkable(normal, up, walkable_angle) ==
    LET slope_angle == AngleBetween(DirVec(up), normal)
    IN  AngleLess(slope_angle, walkable_angle)

\* Ground::new_if_walkable
GroundNewIfWalkable(entity, normal, up, walkable_angle) ==
    LET p == Dir3New(normal)
    IN  IF p = NoDir THEN None
        ELSE IF ~IsWalkable(DirVec(p), up, walkable_angle) THEN None
        ELSE [entity |-> entity, normal |-> p]

\* Floor::new_if_walkable
FloorNewIfWalkable(entity, normal, distance, up, walkable_angle) ==
    LET p == Dir3New(normal)
    IN  IF p = NoDir THEN None
        ELSE IF AngleGreater(AngleBetween(DirVec(p), DirVec(up)), walkable_angle) THEN None
        ELSE [entity |-> entity, normal |-> p, distance |-> distance]

\* Hit normals classified; with up = (0, 1, 0) the slopes are 0, 26.6, 45,
\* 63.4, 90, 135 and 180 degrees; (0, 0, 0) and the normals with an
\* infinite or NaN component are degenerate.
WalkNormals ==
    {VInt(0, 1, 0), VInt(1, 2, 0), VInt(0, 2, 1), VInt(1, 1, 0), VInt(0, 1, -1),
     VInt(2, 1, 0), VInt(1, 0, 0), VInt(1, -1, 0), VInt(0, -1, 0), VInt(0, 0, 1),
     VInt(1, 0, 1), VInt(0, 0, 0), V(RZero, RInf, RZero), V(RZero, ROne, RNaN)}

Ups == {DirOf(0, 1, 0), DirOf(0, 0, 1)}

\* walkable_angle values: 0, 26.6 degrees, PI / 4, 63.4 degrees, PI / 2, 3 PI / 4
WalkableAngles ==
    {Angle(ROne), Angle(R(4, 5)), ExampleWalkableAngle, Angle(R(1, 5)), Angle(RZero),
     Angle(R(-1, 2))}

InitWalk == IdleState("classify")

ClassifyCall ==
    \E normal \in WalkNormals, up \in Ups, walkable_angle \in WalkableAngles :
        /\ pc = "classify"
        /\ pc' = "done"
        /\ probe' = [type |-> "walkable", normal |-> normal, up |-> up,
                     walkable_angle |-> walkable_angle,
                     slope_angle |-> AngleBetween(DirVec(up), normal),
                     is_walkable |-> IsWalkable(normal, up, walkable_angle),
                     ground |-> GroundNewIfWalkable("hit_entity", normal, up,
                                                    walkable_angle),
                     floor |-> FloorNewIfWalkable("hit_entity", normal, DistZero, up,
                                                  walkable_angle)]
        /\ UNCHANGED <<args, translation, velocity, remaining_time, original_direction,
                       planes, substep, result, slide, sweeps, on_hits, reported, log,
                       earlier>>
        /\ UNCHANGED moveVars

SpecWalk == InitWalk /\ [][ClassifyCall]_vars

----------------------------------------------------------------------------
(* Character: launch and jump                                              *)

\* Everything move_and_slide keeps, but `pc` and `probe`.
slideLocals ==
    <<args, translation, velocity, remaining_time, original_direction, planes, substep,
      result, slide, sweeps, on_hits, reported, log, earlier>>

RMin(a, b) == IF RLess(b, a) THEN b ELSE a

\* The integer square root of n >= 1, by Newton's iteration from x >= sqrt(n).
RECURSIVE ISqrtFrom(_, _)
ISqrtFrom(n, x) ==
    LET y == (x + n \div x) \div 2
    IN  IF y >= x THEN x ELSE ISqrtFrom(n, y)

ISqrt(n) == ISqrtFrom(n, n)

\* A direction whose length the model can express: an integer.
Representable(p) == ISqrt(DirLenSq(p)) * ISqrt(DirLenSq(p)) = DirLenSq(p)

\* |p| of a Dir3 representative whose length is an integer.
DirLen(p) == IF Representable(p) THEN ISqrt(DirLenSq(p)) ELSE NotRepresentable

\* The unit vector a Dir3 derefs to.
UnitVec(p) == VScale(DirVec(p), R(1, DirLen(p)))

\* Mutant of LaunchedAway: an impulse along the ground counts as leaving it.
LaunchedAwayOrAlong(ground, impulse) == RLeq(RZero, VDot(DirVec(ground), impulse))

\* ground.dot(impulse) > 0.0
LaunchedAway(ground, impulse) == RLess(RZero, VDot(DirVec(ground), impulse))

\* Character::launch
Launch(c, impulse) ==
    [c EXCEPT !.ground = IF c.ground # None /\ LaunchedAway(c.ground, impulse)
                         THEN None ELSE c.ground,
              !.velocity = VAdd(c.velocity, impulse)]

\* Mutant of Jump: the downward velocity is not overridden.
JumpOnTopOfFall(c, impulse) == Launch(c, VScale(UnitVec(c.up), impulse))

\* Character::jump
Jump(c, impulse) ==
    LET down == RMin(VDot(c.velocity, UnitVec(c.up)), RZero)
    IN  Launch(c, VAdd(VScale(UnitVec(c.up), impulse),
                       VScale(UnitVec(c.up), RNeg(down))))

\* Character::grounded
Grounded(c) == c.ground # None

\* EXAMPLE_JUMP_IMPULSE
ExampleJumpImpulse == RInt(6)

\* The characters launched: at rest, falling, rising; airborne, on flat
\* ground, on a walkable slope, against a wall, under a ceiling.
JumpVelocities == {VInt(0, 0, 0), VInt(1, -2, -3), VInt(0, 3, 1)}

JumpGrounds == {None, DirOf(0, 1, 0), DirOf(0, 0, 1), DirOf(1, 2, 0), DirOf(1, 0, 0),
                DirOf(0, -1, 0)}

JumpUps == {DirOf(0, 1, 0), DirOf(0, 0, 1)}

Characters == [velocity : JumpVelocities, ground : JumpGrounds, up : JumpUps]

\* (-2, 1, 0) lies in the slope (1, 2, 0).
LaunchImpulses == {VInt(0, 6, 0), VInt(2, 0, 0), VInt(0, -1, 0), VInt(-2, 1, 0),
                   VInt(0, 0, 0)}

JumpImpulses == {ExampleJumpImpulse, ROne, RZero}

InitJump ==
    /\ SlideIdle("character")
    /\ character \in Characters
    /\ transform = VZero
    /\ new_ground = None
    /\ move_accel = VZero
    /\ attempts = <<>>
    /\ started = None
    /\ ticks = 0
    /\ jumps = 0
    /\ components = DefaultComponents

LaunchCall ==
    \E impulse \in LaunchImpulses :
        /\ pc = "character"
        /\ pc' = "done"
        /\ character' = Launch(character, impulse)
        /\ probe' = [type |-> "launch", before |-> character, impulse |-> impulse]
        /\ UNCHANGED slideLocals
        /\ UNCHANGED <<transform, new_ground, move_accel, attempts, started, ticks,
                       jumps, components>>

JumpCall ==
    \E impulse \in JumpImpulses :
        /\ pc = "character"
        /\ pc' = "done"
        /\ character' = Jump(character, impulse)
        /\ probe' = [type |-> "jump", before |-> character, impulse |-> impulse]
        /\ UNCHANGED slideLocals
        /\ UNCHANGED <<transform, new_ground, move_accel, attempts, started, ticks,
                       jumps, components>>

SpecJump == InitJump /\ [][LaunchCall \/ JumpCall]_vars

----------------------------------------------------------------------------
(* Projections of character.rs and the step climber                        *)

\* The value of len * |p| + eps * epsilon along a direction of integer
\* length.
DistValue(dist, p, epsilon) ==
    RAdd(RMul(dist.len, RInt(DirLen(p))), RMul(dist.eps, epsilon))

\* motion.project_onto(*up), motion.reject_from(normal): the vector they are
\* taken along is not assumed to be a unit vector; a zero one gives NaN.
VNaN == V(RNaN, RNaN, RNaN)

ProjectOnto(motion, v) ==
    IF Dir3New(v) = NoDir THEN VNaN ELSE ProjectOntoNormalized(motion, Dir3New(v))

RejectFrom(motion, v) ==
    IF Dir3New(v) = NoDir THEN VNaN ELSE RejectFromNormalized(motion, Dir3New(v))

\* project_motion_on_ground(motion, normal, up)
ProjectMotionOnGround(motion, normal, up) ==
    LET n == Dir3New(normal)
        vertical0 == ProjectOnto(motion, DirVec(up))
        horizontal0 == VSub(motion, vertical0)
        vertical == IF RLess(VDot(vertical0, DirVec(n)), RZero) THEN VZero ELSE vertical0
        tangent == Dir3New(VCross(horizontal0, DirVec(up)))
        horizontal_direction == Dir3New(VCross(DirVec(tangent), DirVec(n)))
    IN  IF n = NoDir THEN Panic
        ELSE IF tangent = NoDir THEN vertical
        ELSE IF horizontal_direction = NoDir THEN VAdd(vertical, horizontal0)
        ELSE VAdd(vertical, ProjectOntoNormalized(horizontal0, horizontal_direction))

\* project_motion_on_wall(motion, normal, up)
ProjectMotionOnWall(motion, normal, up) ==
    LET n == Dir3New(normal)
        vertical0 == ProjectOnto(motion, DirVec(up))
        horizontal0 == VSub(motion, vertical0)
        vertical == RejectFromNormalized(vertical0, n)
        tangent == Dir3New(VCross(DirVec(n), DirVec(up)))
    IN  IF n = NoDir THEN Panic
        ELSE IF tangent = NoDir THEN VAdd(vertical, horizontal0)
        ELSE VAdd(vertical, ProjectOntoNormalized(horizontal0, tangent))

\* EXAMPLE_STEP_HEIGHT = 0.25, EXAMPLE_GROUND_CHECK_DISTANCE = 0.1,
\* EXAMPLE_CHARACTER_RADIUS = 0.35
ExampleStepHeight == R(1, 4)

ExampleGroundCheckDistance == R(1, 10)

ExampleCharacterRadius == R(7, 20)

\* The rationals standing for 1 - cos(EXAMPLE_WALKABLE_ANGLE) = 0.2928... and
\* for PI (both irrational): 0.2857... and 3.125.
OneMinusCosWalkableAngle == R(2, 7)

Pi == R(25, 8)

\* EXAMPLE_WALKABLE_ANGLE - 1e-4: cos^2 = (1 + sin 2e-4) / 2 = 0.5001
StepWalkableAngle == Angle(R(5001, 10000))

\* The forward sweep of try_climb_step is made when the horizontal motion has
\* a direction, and blocks the step when it hits.
ForwardBlocked(horizontal_motion, forward) ==
    Dir3New(horizontal_motion) # NoDir /\ forward # None

\* motion.reject_from_normalized(Vec3::Y)
HorizontalMotion(motion) == RejectFromNormalized(motion, DirOf(0, 1, 0))

\* try_climb_step, with `forward` and `down` what the two shape casts answer:
\* None, or Some of the new translation and the hit of the downward sweep.
TryClimbStep(from, motion, up, step_up_height, epsilon, forward, down) ==
    LET step_up_pos == VAdd(from, VScale(UnitVec(up), step_up_height))
        horizontal_motion == HorizontalMotion(motion)
        step_down_pos == VAdd(step_up_pos, horizontal_motion)
        swept == SweepCheck(down)
    IN  IF ForwardBlocked(horizontal_motion, forward) THEN None
        ELSE IF swept = None THEN None
        ELSE [translation |->
                  VSub(step_down_pos,
                       VScale(UnitVec(up),
                              DistValue(swept.safe_distance, DirNeg(up), epsilon))),
              hit |-> swept.hit]

\* hit_normal.reject_from_normalized(*up).normalize_or_zero()
HorizontalNormal(hit_normal, up) ==
    LET h == RejectFromNormalized(hit_normal, up)
    IN  IF Dir3New(h) = NoDir THEN VZero ELSE UnitVec(Dir3New(h))

\* inward = EXAMPLE_CHARACTER_RADIUS * (1 - cos) + epsilon * PI
Inward(epsilon) ==
    RAdd(RMul(ExampleCharacterRadius, OneMinusCosWalkableAngle), RMul(epsilon, Pi))

\* The motion try_step_up_on_hit hands to try_climb_step.
StepMotion(hit_normal, up, direction, step_forward, epsilon) ==
    VSub(VScale(UnitVec(direction), RMax(RSub(step_forward, Inward(epsilon)), RZero)),
         VScale(HorizontalNormal(hit_normal, up), Inward(epsilon)))

\* The try_climb_step call of try_step_up_on_hit.
StepClimb(from, up, hit_normal, direction, step_forward, epsilon, forward, down) ==
    TryClimbStep(from, StepMotion(hit_normal, up, direction, step_forward, epsilon), up,
                 RAdd(ExampleStepHeight, ExampleGroundCheckDistance), epsilon, forward,
                 down)

\* Mutant of StepUpResult: the landing is not tested.
StepUpResultOnAnyLanding(climbed, up, step_forward, epsilon, delta_time) ==
    LET stepped == RMax(RSub(step_forward, Inward(epsilon)), RZero)
    IN  IF climbed = None THEN None
        ELSE [translation |-> climbed.translation,
              move_time |-> RMul(RAdd(stepped, Inward(epsilon)), delta_time),
              normal |-> climbed.hit.normal]

\* try_step_up_on_hit after try_climb_step has returned `climbed`: None or
\* Some(StepUpResult).
StepUpResult(climbed, up, step_forward, epsilon, delta_time) ==
    LET stepped == RMax(RSub(step_forward, Inward(epsilon)), RZero)
    IN  IF climbed = None THEN None
        ELSE IF ~IsWalkable(climbed.hit.normal, up, StepWalkableAngle) THEN None
        ELSE [translation |-> climbed.translation,
              move_time |-> RMul(RAdd(stepped, Inward(epsilon)), delta_time),
              normal |-> climbed.hit.normal]

\* try_step_up_on_hit, with the answers of the two shape casts of
\* try_climb_step.
TryStepUpOnHit(from, up, normal, direction, step_forward, epsilon, dt, forward, down) ==
    StepUpResult(StepClimb(from, up, normal, direction, step_forward, epsilon, forward,
                           down),
                 up, step_forward, epsilon, dt)

----------------------------------------------------------------------------
(* The movement system: one tick for the character, from `pc` = "tick"     *)
(* through the acceleration pre-sweep ("presweep"), the substeps of         *)
(* move_and_slide ("slide") and its return ("return") to "ticked".  The     *)
(* tick starts from any of the states a character is in between ticks.      *)
(* movement.rs calls move_and_slide with a closure that is handed the hit   *)
(* and its mutable translation, velocity and remaining time, and that       *)
(* returns whether to slide; that loop is modelled from section 4.6 of the  *)
(* specification, on the variables of move_and_slide.                       *)

\* time.delta_secs()
DeltaSecs == R(1, 4)

ExampleMovementSpeed == RInt(8)

ExampleGroundAcceleration == RInt(100)

ExampleAirAcceleration == RInt(40)

ExampleGravity == RInt(20)

\* The directions of the Move input, after the camera's yaw.
MoveDirections == {VInt(0, 0, 0), VInt(1, 0, 0)}

\* The value explored for exp(-friction / speed * delta), which lies in
\* (0, 1).
FrictionFactors == {R(1, 2)}

\* friction(velocity, EXAMPLE_FRICTION, delta): the vectors it may return.
Friction(v) ==
    IF RLess(VLenSq(v), R(1, 10000)) THEN {VZero}
    ELSE {VScale(v, RNeg(RSub(ROne, factor))) : factor \in FrictionFactors}

\* acceleration(velocity, direction, max_acceleration, target_speed, delta)
Acceleration(v, direction, max_acceleration, target_speed, delta) ==
    LET d == Dir3New(direction)
        current_speed == VDot(v, UnitVec(d))
        accel_speed == RMin(RSub(target_speed, current_speed),
                            RMul(max_acceleration, delta))
    IN  IF d = NoDir THEN VZero
        ELSE IF RLeq(target_speed, current_speed) THEN VZero
        ELSE VScale(UnitVec(d), accel_speed)

\* The velocities the character may have after friction or gravity.
AfterFrictionOrGravity(c) ==
    IF Grounded(c) THEN {VAdd(c.velocity, f) : f \in Friction(c.velocity)}
    ELSE {VAdd(c.velocity, VScale(UnitVec(c.up), RNeg(RMul(ExampleGravity, DeltaSecs))))}

\* move_accel before the projection on the ground.
MoveAccel(c, v, direction) ==
    Acceleration(v, direction,
                 IF Grounded(c) THEN ExampleGroundAcceleration ELSE ExampleAirAcceleration,
                 ExampleMovementSpeed, DeltaSecs)

\* Normals of the surfaces the character runs into; with up = (0, 1, 0):
\* a floor, a wall, a slope of 63.4 degrees.
MoveNormals == {VInt(0, 1, 0), VInt(-1, 0, 0), VInt(-2, 1, 0)}

\* Normals of the surfaces the downward sweeps land on: a floor, a slope of
\* 63.4 degrees, one of 44.997 degrees, between EXAMPLE_WALKABLE_ANGLE -
\* 1e-4 and EXAMPLE_WALKABLE_ANGLE, and a degenerate normal.
LandingNormals ==
    {VInt(0, 1, 0), VInt(-2, 1, 0), VInt(-10000, 10001, 0), VInt(0, 0, 0)}

\* What the casts of the movement system answer: a hit half way, or nothing.
MoveCastShape(normals, direction, max_distance) ==
    CastShapeAmong(normals, {Dist(RMul(R(1, 2), max_distance.len), ROne)},
                   direction, DistAdd(max_distance, DistEpsilon), DefaultEpsilon)

\* The cast was not made.
Unasked == [type |-> "Unasked"]

\* The answers to the forward cast of try_climb_step.
ForwardAnswers == {None, [normal |-> VInt(-1, 0, 0), distance |-> DistZero]}

\* The answers to the downward sweep of try_climb_step.
DownAnswers(up) ==
    MoveCastShape(LandingNormals, DirNeg(up),
                  Dist(RAdd(ExampleStepHeight, ExampleGroundCheckDistance), RZero))

\* The answers to the sweep of ground_check.
GroundAnswers(up) ==
    MoveCastShape(LandingNormals, DirNeg(up), Dist(ExampleGroundCheckDistance, RZero))

\* The try_step_up_on_hit calls that may be made for a hit, one for each
\* pair of answers to the casts of try_climb_step; of each the record keeps
\* where it was made, the Character and new_ground at that time, the
\* arguments, the answers, what try_climb_step returned and the result.
Attempts(at, c, ng, from, hit_normal, direction, step_forward) ==
    LET motion == StepMotion(hit_normal, c.up, direction, step_forward, DefaultEpsilon)
        forwards == IF Dir3New(HorizontalMotion(motion)) = NoDir THEN {Unasked}
                    ELSE ForwardAnswers
        Downs(forward) == IF forward \in {None, Unasked} THEN DownAnswers(c.up)
                          ELSE {Unasked}
        Record(forward, down, climbed) ==
            [at |-> at, grounded |-> Grounded(c), found |-> ng, from |-> from,
             hit_normal |-> hit_normal, forward |-> forward, down |-> down,
             climbed |-> climbed,
             result |-> StepUpResult(climbed, c.up, step_forward, DefaultEpsilon,
                                     DeltaSecs)]
    IN  UNION {
          UNION {
            {Record(forward, down, climbed) :
               climbed \in {TryClimbStep(
                                from, motion, c.up,
                                RAdd(ExampleStepHeight, ExampleGroundCheckDistance),
                                DefaultEpsilon, forward, down)}} :
            down \in Downs(forward)} :
          forward \in forwards}

\* The start of a tick, up to the pre-sweep.
MoveBegin ==
    \E direction \in MoveDirections, v \in AfterFrictionOrGravity(character) :
        LET accel == MoveAccel(character, v, direction)
        IN  /\ pc = "tick"
            /\ ~components.Frozen
            /\ pc' = "presweep"
            /\ log' = <<>>
            /\ args' = [direction |-> direction, delta_secs |-> DeltaSecs,
                        has_sensor |-> FALSE]
            /\ started' = [character |-> character, translation |-> transform]
            /\ character' = [character EXCEPT !.velocity = v]
            /\ new_ground' = None
            /\ attempts' = <<>>
            /\ move_accel' = IF Grounded(character)
                             THEN ProjectMotionOnGround(accel, DirVec(character.ground),
                                                        character.up)
                             ELSE accel
            /\ UNCHANGED <<translation, velocity, remaining_time, original_direction,
                           planes, substep, result, slide, sweeps, on_hits, reported,
                           probe, earlier, transform, ticks, jumps, components>>

\* The whole tick of a character with a Sensor component.
MoveSensor ==
    \E direction \in MoveDirections, v \in AfterFrictionOrGravity(character) :
        LET accel == MoveAccel(character, v, direction)
            v1 == VAdd(v, accel)
        IN  /\ pc = "tick"
            /\ ~components.Frozen
            /\ pc' = "ticked"
            /\ log' = <<>>
            /\ jumps' = 0
            /\ args' = [direction |-> direction, delta_secs |-> DeltaSecs,
                        has_sensor |-> TRUE]
            /\ started' = [character |-> character, translation |-> transform]
            /\ character' = [character EXCEPT !.velocity = v1]
            /\ transform' = VAdd(transform, VScale(v1, DeltaSecs))
            /\ move_accel' = accel
            /\ attempts' = <<>>
            /\ ticks' = ticks + 1
            /\ UNCHANGED <<translation, velocity, remaining_time, original_direction,
                           planes, substep, result, slide, sweeps, on_hits, reported,
                           probe, earlier, new_ground, components>>

\* One sweep of the tick, for the log: where it was made and what the
\* shape cast answered.
TickSweep(at, cast) == [at |-> at, cast |-> cast]

\* What the pre-sweep leaves: what its shape cast answered (Unasked when
\* move_accel has no direction), the translation, new_ground, move_accel and
\* the step attempt it made, if any.  The step attempts are explored for a
\* sweep whose direction has a length the model can express.
PreSweepOutcome(cast, t, ng, accel, attempt) ==
    [cast |-> cast, translation |-> t, new_ground |-> ng, move_accel |-> accel,
     attempt |-> attempt]

PreSweepOutcomes ==
    LET nl == Dir3NewAndLength(VScale(move_accel, DeltaSecs))
        up == character.up
        Still(cast) == PreSweepOutcome(cast, transform, new_ground, move_accel, None)
    IN  IF nl = NoDir THEN {Still(Unasked)}
        ELSE LET direction == nl.direction
                 max_distance == nl.length
             IN  UNION {
                   IF SweepCheck(cast) = None THEN {Still(None)}
                   ELSE LET safe_distance == SweepCheck(cast).safe_distance
                            hit == SweepCheck(cast).hit
                            t1 == VAdd(transform, DirTimes(direction, safe_distance))
                        IN  IF IsWalkable(hit.normal, up, ExampleWalkableAngle)
                            THEN {PreSweepOutcome(
                                      cast, t1, Dir3New(hit.normal),
                                      ProjectMotionOnGround(move_accel, hit.normal, up),
                                      None)}
                            ELSE IF ~Representable(direction) THEN {}
                            ELSE {IF attempt.result # None
                                  THEN PreSweepOutcome(
                                           cast, attempt.result.translation,
                                           Dir3New(attempt.result.normal),
                                           move_accel, attempt)
                                  ELSE PreSweepOutcome(
                                           cast, t1, new_ground,
                                           ProjectMotionOnWall(move_accel, hit.normal, up),
                                           attempt) :
                                  attempt \in Attempts(
                                      "presweep", character, new_ground, t1, hit.normal,
                                      direction,
                                      DistValue(DistSub(max_distance, safe_distance),
                                                direction, DefaultEpsilon))} :
                   cast \in MoveCastShape(MoveNormals, direction, max_distance)}

\* The pre-sweep along move_accel, then the start of move_and_slide.
PreSweep ==
    \E o \in PreSweepOutcomes :
        LET v == VAdd(character.velocity, o.move_accel)
        IN  /\ pc = "presweep"
            /\ pc' = "slide"
            /\ transform' = o.translation
            /\ new_ground' = o.new_ground
            /\ move_accel' = o.move_accel
            /\ attempts' = IF o.attempt = None THEN attempts
                           ELSE Append(attempts, o.attempt)
            /\ character' = [character EXCEPT !.velocity = v]
            /\ translation' = o.translation
            /\ velocity' = v
            /\ remaining_time' = DeltaSecs
            /\ original_direction' = Dir3New(v)
            /\ planes' = <<>>
            /\ substep' = 0
            /\ slide' = None
            /\ log' = IF o.cast = Unasked THEN log
                       ELSE Append(log, TickSweep("presweep", o.cast))
            /\ UNCHANGED <<args, result, sweeps, on_hits, reported, probe, earlier,
                           started, ticks, jumps, components>>

\* What the closure handed to move_and_slide leaves: the Character,
\* new_ground, the hit's translation, velocity and remaining time, whether
\* to slide, and the step attempt made, if any.
CallbackOutcome(c, ng, t, v, rt, slides, attempt) ==
    [character |-> c, new_ground |-> ng, translation |-> t, velocity |-> v,
     remaining_time |-> rt, slides |-> slides, attempt |-> attempt]

\* Mutant of SlideVelocity: the velocity is rejected from the normal as if
\* the character were in the air.
SlideVelocityInTheAir(v, normal, up, grounded) == RejectFrom(v, normal)

\* The character's velocity after a hit it slides on (match grounded).
SlideVelocity(v, normal, up, grounded) ==
    IF grounded THEN ProjectMotionOnWall(v, normal, up) ELSE RejectFrom(v, normal)

\* The closure calls try_step_up_on_hit for a hit that is not walkable when
\* the character is grounded or has found ground in this tick.
StepsUpInCallback(c, ng, normal) ==
    ~IsWalkable(normal, c.up, ExampleWalkableAngle) /\ (Grounded(c) \/ ng # None)

\* The closure, for the hit `h`; `attempt` is the try_step_up_on_hit call it
\* makes, or None when it makes none.
Callback(c, ng, h, attempt) ==
    LET up == c.up
        normal == h.hit.normal
        grounded == Grounded(c) \/ ng # None
    IN  IF IsWalkable(normal, up, ExampleWalkableAngle)
        THEN IF ~Grounded(c)
             THEN CallbackOutcome(
                      [c EXCEPT !.velocity = ProjectMotionOnGround(c.velocity, normal, up)],
                      Dir3New(normal), h.translation,
                      ProjectMotionOnGround(h.velocity, normal, up),
                      h.remaining_time, TRUE, None)
             ELSE CallbackOutcome(c, Dir3New(normal), h.translation, h.velocity,
                                  h.remaining_time, TRUE, None)
        ELSE IF grounded /\ attempt.result # None
        THEN CallbackOutcome(c, Dir3New(attempt.result.normal),
                             attempt.result.translation, h.velocity,
                             RMax(RSub(h.remaining_time, attempt.result.move_time), RZero),
                             FALSE, attempt)
        ELSE IF grounded
        THEN CallbackOutcome(
                 [c EXCEPT !.velocity = SlideVelocity(c.velocity, normal, up, TRUE)],
                 ng, h.translation, ProjectMotionOnWall(h.velocity, normal, up),
                 h.remaining_time, TRUE, attempt)
        ELSE CallbackOutcome(
                 [c EXCEPT !.velocity = SlideVelocity(c.velocity, normal, up, FALSE)],
                 ng, h.translation, h.velocity, h.remaining_time, TRUE, None)

\* The step attempts of the closure for the hit `h`: they are explored for
\* a sweep whose direction has a length the model can express.
CallbackAttempts(c, ng, h) ==
    IF ~StepsUpInCallback(c, ng, h.hit.normal) THEN {None}
    ELSE IF ~Representable(h.direction) THEN {}
    ELSE Attempts("callback", c, ng, h.translation, h.hit.normal, h.direction,
                  DistValue(h.remaining_motion, h.direction, DefaultEpsilon))

\* The loop ends without a sweep.
SlideStop ==
    /\ pc = "slide"
    /\ \/ ~InLoop(substep, DefaultMaxSubsteps)
       \/ Dir3NewAndLength(Motion) = NoDir
    /\ pc' = "return"
    /\ UNCHANGED <<args, translation, velocity, remaining_time, original_direction,
                   planes, substep, result, slide, sweeps, on_hits, reported, probe, log,
                   earlier>>
    /\ UNCHANGED moveVars

\* A substep whose sweep hits nothing.
SlideNoHit ==
    /\ pc = "slide"
    /\ InLoop(substep, DefaultMaxSubsteps)
    /\ Dir3NewAndLength(Motion) # NoDir
    /\ LET nl == Dir3NewAndLength(Motion)
       IN  translation' = NoHitTranslation(translation, nl.direction, nl.length)
    /\ substep' = substep + 1
    /\ pc' = "return"
    /\ log' = Append(log, TickSweep("slide", None))
    /\ UNCHANGED <<args, velocity, remaining_time, original_direction, planes, result,
                   slide, sweeps, on_hits, reported, probe, earlier>>
    /\ UNCHANGED moveVars

\* A substep whose sweep hits: advance to the hit, call the closure, slide
\* on the planes if it says so, test the early exit.
SlideHit ==
    /\ pc = "slide"
    /\ InLoop(substep, DefaultMaxSubsteps)
    /\ Dir3NewAndLength(Motion) # NoDir
    /\ LET nl == Dir3NewAndLength(Motion)
           direction == nl.direction
           max_distance == nl.length
       IN  \E cast \in MoveCastShape(MoveNormals, direction, max_distance) \ {None} :
           \E h \in {[hit |-> cast,
                       translation |->
                           VAdd(translation,
                                DirTimes(direction, SweepCheck(cast).safe_distance)),
                       velocity |-> velocity,
                       remaining_time |->
                           RMul(remaining_time,
                                RSub(ROne, DistRatio(SweepCheck(cast).safe_distance,
                                                     max_distance))),
                       direction |-> direction,
                       remaining_motion |->
                           DistSub(max_distance, SweepCheck(cast).safe_distance)]} :
           \E attempt \in CallbackAttempts(character, new_ground, h) :
           \E o \in {Callback(character, new_ground, h, attempt)},
              ins \in {Insert(planes, cast.normal)} :
             LET solved == IF ~o.slides \/ ins.result = None THEN o.velocity
                           ELSE PlaneProjectMotion(ins.result, o.velocity)
             IN  /\ substep' = substep + 1
                 /\ log' = Append(log, TickSweep("slide", cast))
                 /\ slide' = [hit |-> h, out |-> o]
                 /\ character' = o.character
                 /\ new_ground' = o.new_ground
                 /\ attempts' = IF o.attempt = None THEN attempts
                                ELSE Append(attempts, o.attempt)
                 /\ translation' = o.translation
                 /\ remaining_time' = o.remaining_time
                 /\ IF o.slides /\ ins.result = Panic
                    THEN /\ pc' = "panic"
                         /\ UNCHANGED <<velocity, planes>>
                    ELSE /\ velocity' = solved
                         /\ planes' = IF o.slides THEN ins.planes ELSE planes
                         /\ pc' = IF o.slides /\ AgainstOriginal(solved, original_direction)
                                  THEN "return" ELSE "slide"
    /\ UNCHANGED <<args, original_direction, result, sweeps, on_hits, reported, probe,
                   earlier, transform, move_accel, started, ticks, jumps, components>>

\* Mutant of GroundCheck: whatever the sweep hits is taken for ground.
GroundCheckOnAnySurface(cast, up, walkable_angle) ==
    IF SweepCheck(cast) = None THEN None
    ELSE [safe_distance |-> SweepCheck(cast).safe_distance,
          ground |-> [entity |-> "hit_entity",
                      normal |-> Dir3New(SweepCheck(cast).hit.normal)]]

\* ground_check, after its sweep has answered `cast`: None or Some of the
\* safe distance and the Ground.
GroundCheck(cast, up, walkable_angle) ==
    LET swept == SweepCheck(cast)
    IN  IF swept = None THEN None
        ELSE IF GroundNewIfWalkable("hit_entity", swept.hit.normal, up, walkable_angle)
                = None
        THEN None
        ELSE [safe_distance |-> swept.safe_distance,
              ground |-> GroundNewIfWalkable("hit_entity", swept.hit.normal, up,
                                             walkable_angle)]

\* Mutant of GroundCheckNeeded: a character that was in the air is probed
\* for ground as well.
GroundCheckAlways(c, ng) == ng = None

\* character.grounded() && new_ground.is_none()
GroundCheckNeeded(c, ng) == Grounded(c) /\ ng = None

\* After move_and_slide has returned: the ground check of a character that
\* was grounded and found no ground, and the update of the ground.
MoveEnd ==
    \E cast \in GroundAnswers(character.up) :
        LET check == GroundCheck(cast, character.up, ExampleWalkableAngle)
            snaps == GroundCheckNeeded(character, new_ground) /\ check # None
            ng == IF snaps THEN check.ground.normal ELSE new_ground
        IN  /\ pc = "return"
            /\ GroundCheckNeeded(character, new_ground) \/ cast = None
            /\ pc' = "ticked"
            /\ log' = IF GroundCheckNeeded(character, new_ground)
                       THEN Append(log, TickSweep("ground_check", cast)) ELSE log
            /\ jumps' = 0
            /\ transform' =
                   IF snaps
                   THEN VSub(translation,
                             VScale(UnitVec(character.up),
                                    DistValue(check.safe_distance, DirNeg(character.up),
                                              DefaultEpsilon)))
                   ELSE translation
            /\ new_ground' = ng
            /\ character' = [character EXCEPT !.ground = ng]
            /\ ticks' = ticks + 1
            /\ UNCHANGED <<args, translation, velocity, remaining_time, original_direction,
                           planes, substep, result, slide, sweeps, on_hits, reported,
                           probe, earlier, move_accel, attempts, started, components>>

\* Mutant of JumpFires: the jump is not kept to a grounded character.
JumpFiresInTheAir(c) == TRUE

\* character.grounded() && the Jump action is Fired, when it is.
JumpFires(c) == Grounded(c)

\* jump_input, run with the Jump action fired, before the tick or after it
\* (a run that finds the character in the air changes nothing).
JumpInput ==
    /\ pc \in {"tick", "ticked"}
    /\ JumpFires(character)
    /\ character' = Jump(character, ExampleJumpImpulse)
    /\ jumps' = jumps + 1
    /\ UNCHANGED <<pc, args, translation, velocity, remaining_time, original_direction,
                   planes, substep, result, slide, sweeps, on_hits, reported, probe, log,
                   earlier, transform, new_ground, move_accel, attempts, started, ticks,
                   components>>

\* The characters a tick starts from: in the air at rest or moving, on a
\* floor at rest or moving.
MoveCharacters ==
    {DefaultCharacter,
     [velocity |-> VInt(2, -3, 0), ground |-> None, up |-> DirOf(0, 1, 0)],
     [velocity |-> VInt(0, 0, 0), ground |-> DirOf(0, 1, 0), up |-> DirOf(0, 1, 0)],
     [velocity |-> VInt(2, 0, 0), ground |-> DirOf(0, 1, 0), up |-> DirOf(0, 1, 0)]}

InitMove ==
    /\ SlideIdle("tick")
    /\ character \in MoveCharacters
    /\ transform = VZero
    /\ new_ground = None
    /\ move_accel = VZero
    /\ attempts = <<>>
    /\ started = None
    /\ ticks = 0
    /\ jumps = 0
    /\ components = DefaultComponents

NextMove ==
    \/ MoveBegin
    \/ MoveSensor
    \/ PreSweep
    \/ SlideStop
    \/ SlideNoHit
    \/ SlideHit
    \/ MoveEnd
    \/ JumpInput

SpecMove == InitMove /\ [][NextMove]_vars

----------------------------------------------------------------------------
(* toggle_fly_cam: the observer of the ToggleFlyCam action of the          *)
(* character, whose one attachment is the main camera.  The action is      *)
(* bound with JustPress, and the observer's commands are applied before    *)
(* the next system runs; observers run between the ticks of the movement   *)
(* system.                                                                 *)

\* Mutant of ToggleFlyCam: leaving the fly mode leaves the character Frozen.
ToggleFlyCamStaysFrozen(c) ==
    IF c.FlyingCamera
    THEN [c EXCEPT !.FlyingCamera = FALSE, !.FollowOrigin = TRUE]
    ELSE [c EXCEPT !.Frozen = TRUE, !.FollowOrigin = FALSE, !.FlyingCamera = TRUE]

\* The components once the commands of toggle_fly_cam are applied.
ToggleFlyCam(c) ==
    IF c.FlyingCamera
    THEN [c EXCEPT !.Frozen = FALSE, !.FlyingCamera = FALSE, !.FollowOrigin = TRUE]
    ELSE [c EXCEPT !.Frozen = TRUE, !.FollowOrigin = FALSE, !.FlyingCamera = TRUE]

ToggleFlyCamFired ==
    /\ pc \in {"tick", "ticked"}
    /\ components' = ToggleFlyCam(components)
    /\ UNCHANGED <<pc, probe>>
    /\ UNCHANGED slideLocals
    /\ UNCHANGED <<character, transform, new_ground, move_accel, attempts, started, ticks,
                   jumps>>

SpecFlyCam == InitMove /\ [][NextMove \/ ToggleFlyCamFired]_vars

----------------------------------------------------------------------------
(* Properties of move_and_slide                                            *)

\* The call returned and its callback is Slide::project_motion.
ReturnedWithProjectMotion == pc = "done" /\ args.on_hit = "project_motion"

\* A call is running or over, and its callback is Slide::project_motion.
UsingProjectMotion == pc # "idle" /\ args.on_hit = "project_motion"

\* a and b are parallel (or one of them is zero).
Parallel(a, b) == VCross(a, b) = VZero

\* C1: one call of move_and_slide issues at most max_substeps sweeps, whatever
\* the sweeps report and whatever on_hit returns, and then returns a result:
\* every step taken in the substep loop either returns the result or starts
\* the next of at most max_substeps iterations.
C1_ReturnsWithinSubsteps ==
    /\ [](pc # "idle" => sweeps <= substep /\ substep <= args.max_substeps)
    /\ [][pc = "loop" => \/ pc' = "done" /\ result' # None
                         \/ pc' = "loop" /\ substep' = substep + 1]_vars

\* C2: when the first sweep reports no hit the call is over at once: one
\* sweep, no on_hit invocation, translation = origin + velocity * delta_time,
\* velocity unchanged, plane None.
C2_EmptySpace ==
    (sweeps >= 1 /\ reported = {}) =>
        /\ pc = "done"
        /\ sweeps = 1
        /\ on_hits = 0
        /\ result.translation = VAdd(args.origin, VScale(args.velocity, args.delta_time))
        /\ result.velocity = args.velocity
        /\ result.plane = None

C2_Witness ==
    /\ pc = "done"
    /\ sweeps = 1
    /\ reported = {}
    /\ args.velocity = VInt(2, -1, 2)
    /\ result.translation = VInt(2, -1, 2)

\* C3: with on_hit = Slide::project_motion and sweeps that only ever report
\* one normal n, the returned velocity has no component along n and differs
\* from the input velocity only along n (its tangent part is the input's).
C3_SinglePlane ==
    (ReturnedWithProjectMotion /\ Cardinality(reported) = 1) =>
        \A n \in reported :
            /\ VDot(result.velocity, n) = RZero
            /\ Parallel(VSub(result.velocity, args.velocity), n)

C3_Witness ==
    /\ ReturnedWithProjectMotion
    /\ reported = {VInt(-1, 8, 0)}
    /\ sweeps >= 2
    /\ args.velocity = VInt(2, -1, 2)
    /\ result.velocity # VZero
    /\ result.velocity # args.velocity

\* C4: with on_hit = Slide::project_motion, the velocity produced at the hit
\* that accepts the second normal is the orthogonal projection of the incoming
\* velocity onto the line n1 x n2: it is parallel to n1 x n2 (or zero), it
\* differs from the incoming velocity by a vector orthogonal to n1 x n2, and
\* it has no component along n1 or n2.
C4_Crease ==
    (UsingProjectMotion /\ Len(planes) = 2 /\ on_hits = 2) =>
        LET n1 == DirVec(planes[1])
            n2 == DirVec(planes[2])
            line == VCross(n1, n2)
        IN  /\ slide.plane.type = "Crease"
            /\ slide.plane.planes = <<planes[1], planes[2]>>
            /\ Parallel(velocity, line)
            /\ VDot(VSub(slide.velocity, velocity), line) = RZero
            /\ VDot(velocity, n1) = RZero
            /\ VDot(velocity, n2) = RZero

C4_Witness ==
    /\ UsingProjectMotion
    /\ on_hits = 2
    /\ planes = <<[x |-> -1, y |-> 8, z |-> 0], [x |-> 0, y |-> 0, z |-> -1]>>
    /\ velocity # VZero
    /\ slide.velocity # velocity

\* C5: with on_hit = Slide::project_motion, once a third normal is accepted
\* the classification is Corner, the velocity is zero, the call has returned
\* (no further sweep) and the returned velocity is zero.
C5_Corner ==
    (UsingProjectMotion /\ Len(planes) >= 3) =>
        /\ Len(planes) = 3
        /\ slide.plane = CornerOf(planes[1], planes[2], planes[3])
        /\ velocity = VZero
        /\ pc = "done"
        /\ sweeps = substep
        /\ result.velocity = VZero
        /\ result.plane = slide.plane

C5_Witness ==
    /\ UsingProjectMotion
    /\ Len(planes) = 3
    /\ on_hits = 3
    /\ slide.velocity # VZero
    /\ args.max_substeps = DefaultMaxSubsteps
    /\ pc = "done"

\* C6 as claimed: the SlidePlanes accumulator never holds more than 3 normals.
C6_AtMostThree == Len(planes) <= 3

\* C6 as amended: the accumulator holds at most one normal per substep, hence
\* at most max_substeps normals, and at most 3 when on_hit is
\* Slide::project_motion.
C6_AtMostSubsteps ==
    pc # "idle" =>
        /\ Len(planes) <= substep
        /\ substep <= args.max_substeps
        /\ (args.on_hit = "project_motion" => Len(planes) <= 3)

C6_Witness ==
    /\ pc # "idle"
    /\ args.on_hit = "custom"
    /\ args.max_substeps = DefaultMaxSubsteps
    /\ Len(planes) = 4
    /\ slide.plane.type = "Corner"

----------------------------------------------------------------------------
(* Properties of SlidePlanes::insert, sweep_check and the walkability tests *)

InsertReturned == probe.type = "insert" /\ probe.result # Panic

\* C7: no two normals stored in SlidePlanes are similar (their dot product is
\* at most SIMILARITY_THRESHOLD = 0.999), and an insert that returns None
\* leaves the stored normals as they were.
C7_NoSimilarStored ==
    /\ \A i, j \in 1..Len(planes) : i # j => ~SimilarPlane(planes[i], planes[j])
    /\ (InsertReturned /\ probe.result = None) => planes = probe.before

\* An insert was rejected while (0, 1, 0) and a normal about 8 degrees from it
\* are both stored.
C7_Witness ==
    /\ InsertReturned
    /\ probe.result = None
    /\ \E i, j \in 1..Len(planes) :
          planes[i] = DirOf(0, 1, 0) /\ planes[j] = DirOf(-1, 7, 0)

\* C8: insert(normal) returns None exactly when some stored normal n has
\* n.dot(normal) > 0.999; otherwise the normal is appended (for instance at a
\* dot product of 0.995) and the plane type of the new list is returned.
C8_RejectsIffAboveThreshold ==
    InsertReturned =>
        LET p == Dir3New(probe.normal)
            similar == \E i \in 1..Len(probe.before) : SimilarPlane(probe.before[i], p)
        IN  /\ (probe.result = None) <=> similar
            /\ ~similar => /\ planes = Append(probe.before, p)
                           /\ probe.result = PlaneTypeOf(planes)

\* C9: on a hit sweep_check returns safe_distance = max(hit.distance - epsilon, 0)
\* together with the hit, so safe_distance is never negative.
C9_SafeDistanceClamped ==
    (probe.type = "sweep_check" /\ probe.cast # None) =>
        LET back == DistSub(probe.cast.distance, DistEpsilon)
        IN  /\ probe.out.hit = probe.cast
            /\ probe.out.safe_distance =
                   IF DistSign(back, probe.direction, probe.epsilon) >= 0
                   THEN back ELSE DistZero
            /\ DistSign(probe.out.safe_distance, probe.direction, probe.epsilon) >= 0

\* C10: is_walkable, Ground::new_if_walkable and Floor::new_if_walkable all
\* accept a normal exactly when angle_between(up, normal) < walkable_angle,
\* so a normal at exactly walkable_angle is rejected by each of them.
C10_StrictEverywhere ==
    probe.type = "walkable" =>
        LET strict == AngleLess(probe.slope_angle, probe.walkable_angle)
        IN  /\ probe.is_walkable = strict
            /\ (probe.ground # None) = strict
            /\ (probe.floor # None) = strict

\* A vector that is no direction: zero, or with an infinite or NaN component.
Degenerate(v) == ~VIsFinite(v) \/ VIsZero(v)

\* C11: for a degenerate hit normal (zero, infinite or NaN) is_walkable is
\* false and Ground::new_if_walkable and Floor::new_if_walkable return None,
\* for every up and walkable_angle; no Ground or Floor carries a degenerate
\* normal.
C11_DegenerateRejected ==
    probe.type = "walkable" =>
        /\ Degenerate(probe.normal) =>
               /\ probe.is_walkable = FALSE
               /\ probe.ground = None
               /\ probe.floor = None
        /\ probe.ground # None =>
               probe.ground.normal # NoDir /\ ~Degenerate(DirVec(probe.ground.normal))
        /\ probe.floor # None =>
               probe.floor.normal # NoDir /\ ~Degenerate(DirVec(probe.floor.normal))

\* A zero normal was classified against the widest walkable angle.
C11_Witness ==
    /\ probe.type = "walkable"
    /\ probe.normal = VZero
    /\ probe.walkable_angle = Angle(R(-1, 2))
    /\ probe.floor = None

----------------------------------------------------------------------------
(* Further properties of move_and_slide                                    *)

\* velocity.dot(original_direction) > 0 for the running call
AlongOriginal(v) == RLess(RZero, VDot(v, DirVec(original_direction)))

\* The call made just before the running one.
Before == earlier[Len(earlier)]

\* C12: whatever normal a hit carries (zero, infinite and NaN included),
\* move_and_slide and the insert inside it never panic: the call returns.
C12_NeverPanics == pc # "panic"

\* C13: a call with degenerate (zero) velocity issues no sweep, invokes no
\* on_hit and returns translation = origin, applied_motion = 0, the velocity
\* it was given, remaining_time = delta_time and plane None; over any number
\* of such ticks in a row the translation stays at the origin of the first.
C13_ZeroVelocityNoOp ==
    (pc # "idle" /\ Degenerate(args.velocity)) =>
        /\ pc = "done"
        /\ sweeps = 0 /\ on_hits = 0 /\ log = <<>>
        /\ result.translation = args.origin
        /\ result.applied_motion = VZero
        /\ result.velocity = args.velocity
        /\ result.remaining_time = args.delta_time
        /\ result.plane = None
        /\ \A i \in 1..Len(earlier) :
              (\A j \in i..Len(earlier) : Degenerate(earlier[j].args.velocity))
                  => result.translation = earlier[i].args.origin

\* A character driven to rest away from where it started was ticked twice more.
C13_Witness ==
    /\ pc = "done"
    /\ Len(earlier) = 2
    /\ ~Degenerate(earlier[1].args.velocity)
    /\ earlier[2].args.velocity = VZero
    /\ args.velocity = VZero
    /\ args.origin # earlier[1].args.origin
    /\ result.translation = earlier[2].args.origin

\* C14: once the velocity after a substep has dot product <= 0 with the
\* original direction the call returns that velocity without another sweep;
\* every sweep is issued with a velocity whose dot product with the
\* original direction is > 0.
C14_EarlyExit ==
    /\ [](pc = "loop" => AlongOriginal(velocity))
    /\ [](pc \in {"loop", "done", "panic"} =>
             \A i \in 1..Len(log) : AlongOriginal(log[i].velocity))
    /\ [][(pc = "loop" /\ ~AlongOriginal(velocity'))
              => (pc' = "done" /\ result'.velocity = velocity' /\ sweeps' = sweeps + 1)]_vars

\* The third hit of a call allowed four substeps stopped the character and
\* the call returned.
C14_Witness ==
    /\ pc = "done"
    /\ args.max_substeps = DefaultMaxSubsteps
    /\ sweeps = 3 /\ on_hits = 3
    /\ result.velocity = VZero

\* C15: every sweep that reports a hit is followed by one on_hit invocation
\* with that hit before the next sweep or the return, also when the hit's
\* normal is similar to one already accumulated.
C15_OnHitForEveryHit ==
    pc \in {"loop", "done"} =>
        \A i \in 1..Len(log) :
            log[i].cast # None => (log[i].slide # None /\ log[i].slide.hit = log[i].cast)

\* C20: a call given the arguments of the call before it, the same sweep
\* answers and the same callback issues the same sweeps, makes the same
\* on_hit invocations and returns the same result; every call starts with
\* an empty SlidePlanes.
C20_SameCallSameResult ==
    /\ (pc = "loop" /\ substep = 0) => planes = <<>>
    /\ (pc # "idle" /\ earlier # <<>> /\ Before.args = args) =>
          /\ pc # "panic"
          /\ Len(log) <= Len(Before.log)
          /\ \A i \in 1..Len(log) : log[i] = Before.log[i]
          /\ pc = "done" => (log = Before.log /\ result = Before.result)

\* A call that accumulated two normals was repeated and has returned.
C20_Witness ==
    /\ pc = "done"
    /\ earlier # <<>>
    /\ Before.args = args
    /\ Len(log) >= 2
    /\ Len(planes) >= 2
    /\ result.plane # None

----------------------------------------------------------------------------
(* Properties of Character                                                 *)

\* C19: launch adds the impulse to the velocity and clears the ground
\* exactly when the character is grounded and the impulse has a positive
\* component along the ground normal, else leaves the ground as it was; a
\* jump with a positive impulse from walkable ground leaves the character
\* ungrounded.
C19_LaunchLeavesGround ==
    /\ probe.type = "launch" =>
         LET before == probe.before
         IN  /\ character.velocity = VAdd(before.velocity, probe.impulse)
             /\ character.up = before.up
             /\ IF /\ before.ground # None
                   /\ RLess(RZero, VDot(DirVec(before.ground), probe.impulse))
                THEN character.ground = None
                ELSE character.ground = before.ground
    /\ probe.type = "jump" =>
         LET before == probe.before
         IN  ( /\ RLess(RZero, probe.impulse)
               /\ before.ground # None
               /\ IsWalkable(DirVec(before.ground), before.up, ExampleWalkableAngle) )
             => character.ground = None

\* A falling character on a walkable slope has jumped and left the ground; an
\* impulse lying in the slope has left another on it.
C19_Witness ==
    \/ /\ probe.type = "jump"
       /\ probe.before.ground = DirOf(1, 2, 0)
       /\ probe.before.up = DirOf(0, 1, 0)
       /\ probe.before.velocity = VInt(1, -2, -3)
       /\ probe.impulse = ROne
       /\ character.ground = None
       /\ character.velocity = VInt(1, 1, -3)
    \/ /\ probe.type = "launch"
       /\ probe.before.ground = DirOf(1, 2, 0)
       /\ probe.impulse = VInt(-2, 1, 0)
       /\ character.ground = DirOf(1, 2, 0)

----------------------------------------------------------------------------
(* Properties of the step climber and of the movement system               *)

\* The cast was made and hit something.
IsHit(answer) == answer # None /\ answer # Unasked

\* The last try_step_up_on_hit call of the tick.
LastAttempt == attempts[Len(attempts)]

\* A step of the tick in which try_step_up_on_hit was called.
StepAttempted == Len(attempts') = Len(attempts) + 1

\* C16: try_climb_step returns None when its forward sweep hits and when its
\* downward sweep finds nothing; the translation is then where it was when
\* the attempt was made, and the movement code projects on the wall: the
\* pre-sweep projects move_accel, the closure the character's velocity and
\* the velocity of the hit, and asks for the slide.
C16_FailedStepFallsBack ==
    [][StepAttempted =>
         LET a == attempts'[Len(attempts')]
             up == character.up
         IN  /\ IsHit(a.forward) => a.climbed = None
             /\ a.down = None => a.climbed = None
             /\ a.climbed = None =>
                  /\ a.result = None
                  /\ new_ground' = new_ground
                  /\ IF a.at = "presweep"
                     THEN /\ transform' = a.from
                          /\ move_accel' = ProjectMotionOnWall(move_accel, a.hit_normal, up)
                          /\ character'.velocity = VAdd(character.velocity, move_accel')
                     ELSE /\ translation' = a.from
                          /\ transform' = transform
                          /\ character'.velocity =
                                 ProjectMotionOnWall(character.velocity, a.hit_normal, up)
                          /\ slide'.out.velocity =
                                 ProjectMotionOnWall(velocity, a.hit_normal, up)
                          /\ slide'.out.slides]_vars

\* The pre-sweep has made a step attempt whose downward sweep found nothing,
\* and the closure one whose forward sweep hit.
C16_Witness ==
    \E i, j \in 1..Len(attempts) :
        /\ attempts[i].at = "presweep"
        /\ attempts[i].forward = None
        /\ attempts[i].down = None
        /\ attempts[i].climbed = None
        /\ attempts[j].at = "callback"
        /\ IsHit(attempts[j].forward)
        /\ attempts[j].climbed = None
        /\ translation = attempts[j].from

\* C17, as stated: a step-up succeeds only on a walkable landing, in
\* try_climb_step as well as in try_step_up_on_hit.
C17_ClimbLandsOnWalkable ==
    \A i \in 1..Len(attempts) :
        /\ attempts[i].climbed # None =>
             IsWalkable(attempts[i].climbed.hit.normal, character.up, ExampleWalkableAngle)
        /\ attempts[i].result # None =>
             IsWalkable(attempts[i].result.normal, character.up, ExampleWalkableAngle)

\* C17, amended: try_step_up_on_hit succeeds only when try_climb_step has
\* and the surface its downward sweep found is walkable at
\* EXAMPLE_WALKABLE_ANGLE - 1e-4, and returns that landing; try_climb_step
\* succeeds whenever its forward sweep is clear and its downward sweep finds a
\* surface, whatever the slope.
C17_StepUpLandsOnWalkable ==
    \A i \in 1..Len(attempts) :
        LET a == attempts[i]
        IN  /\ a.result # None <=>
                 /\ a.climbed # None
                 /\ IsWalkable(a.climbed.hit.normal, character.up, StepWalkableAngle)
            /\ a.result # None =>
                 /\ a.result.normal = a.climbed.hit.normal
                 /\ a.result.translation = a.climbed.translation
            /\ a.climbed # None <=> ~IsHit(a.forward) /\ IsHit(a.down)
            /\ a.climbed # None => a.climbed.hit = a.down

\* try_climb_step has landed on a slope of 63.4 degrees and on one just
\* under 45 degrees, try_step_up_on_hit has turned both down, and a step-up
\* on a floor has succeeded.
C17_Witness ==
    \E i, j, k \in 1..Len(attempts) :
        /\ attempts[i].climbed # None
        /\ attempts[i].climbed.hit.normal = VInt(-2, 1, 0)
        /\ attempts[i].result = None
        /\ attempts[j].climbed # None
        /\ attempts[j].climbed.hit.normal = VInt(-10000, 10001, 0)
        /\ IsWalkable(attempts[j].climbed.hit.normal, character.up, ExampleWalkableAngle)
        /\ attempts[j].result = None
        /\ attempts[k].result # None
        /\ attempts[k].result.normal = VInt(0, 1, 0)

\* C18: try_step_up_on_hit is only called for a grounded character: one whose
\* ground was Some when the tick started, or that has found ground in this
\* tick before the call.
C18_StepOnlyWhenGrounded ==
    \A i \in 1..Len(attempts) : attempts[i].grounded \/ attempts[i].found # None

----------------------------------------------------------------------------
(* project_motion_on_ground on its own: one call, for any motion and any   *)
(* normal.                                                                 *)

\* With up = (0, 1, 0): horizontal motions, falling and rising ones, and
\* purely vertical ones.
GroundMotions ==
    {VInt(1, 0, 0), VInt(0, 0, 1), VInt(-1, 0, 0), VInt(2, 0, -1), VInt(1, -1, 0),
     VInt(1, 2, 0), VInt(-3, 1, 2), VInt(0, -2, 5), VInt(0, -1, 0), VInt(0, 1, 0),
     VInt(0, 0, 0)}

\* A floor, slopes of 26.6, 18.4, 24.1 and 20.0 degrees, a slope of exactly
\* 45 degrees, a wall and a degenerate normal; (0, 11, 4) is the 20 degree
\* floor of the specification's example (tan = 0.3636).
GroundNormals ==
    {VInt(0, 1, 0), VInt(-1, 2, 0), VInt(1, 2, 0), VInt(0, 3, 1), VInt(0, 2, -1),
     VInt(-1, 5, 2), VInt(0, 11, 4), VInt(1, 1, 0), VInt(-1, 0, 0), VInt(0, 0, 0)}

InitProject == IdleState("project")

ProjectOnGroundCall ==
    \E motion \in GroundMotions, normal \in GroundNormals :
        /\ pc = "project"
        /\ pc' = IF Dir3New(normal) = NoDir THEN "panic" ELSE "done"
        /\ probe' = [type |-> "project_motion_on_ground", motion |-> motion,
                     normal |-> normal, up |-> DirOf(0, 1, 0),
                     out |-> ProjectMotionOnGround(motion, normal, DirOf(0, 1, 0))]
        /\ UNCHANGED slideLocals
        /\ UNCHANGED moveVars

SpecProject == InitProject /\ [][ProjectOnGroundCall]_vars

----------------------------------------------------------------------------
(* Properties of the projections                                           *)

\* The part of v at right angles to up.
Horizontal(v, up) == RejectFromNormalized(v, up)

\* C21: for a motion with a non-zero horizontal part and a walkable normal,
\* the horizontal part of what project_motion_on_ground returns points the
\* way the motion's horizontal part does and is as long, and the result has
\* no component into the surface.
C21_GroundProjectionKeepsSpeed ==
    ( /\ probe.type = "project_motion_on_ground"
      /\ Horizontal(probe.motion, probe.up) # VZero
      /\ IsWalkable(probe.normal, probe.up, ExampleWalkableAngle) ) =>
        LET h_in == Horizontal(probe.motion, probe.up)
            h_out == Horizontal(probe.out, probe.up)
        IN  /\ Parallel(h_out, h_in)
            /\ RLess(RZero, VDot(h_out, h_in))
            /\ VLenSq(h_out) = VLenSq(h_in)
            /\ RLeq(RZero, VDot(probe.out, probe.normal))

----------------------------------------------------------------------------
(* Properties of the substep loop and of the plane classification          *)

\* C22: throughout a call of move_and_slide remaining_time lies in
\* [0, delta_time] and no substep increases it, whatever distance the hit is
\* reported at and whatever elapsed_time >= 0 the callback returns.
C22_RemainingTimeShrinks ==
    /\ [](pc # "idle" => /\ RLeq(RZero, remaining_time)
                         /\ RLeq(remaining_time, args.delta_time))
    /\ [][pc = "loop" => RLeq(remaining_time', remaining_time)]_vars

\* The sweep of this log entry hit and insert accepted its normal.
Accepted(entry) == entry.slide # None

\* The normals accepted so far in the running call, in the order of the hits.
AcceptedNormals ==
    LET hits == SelectSeq(log, Accepted)
    IN  [i \in 1..Len(hits) |-> Dir3New(hits[i].cast.normal)]

\* The classification the claim gives for up to three accepted normals.
Classified(normals) ==
    IF Len(normals) = 0 THEN None
    ELSE IF Len(normals) = 1 THEN PlaneOf(normals[1])
    ELSE IF Len(normals) = 2
    THEN CreaseOf(Dir3New(VCross(DirVec(normals[1]), DirVec(normals[2]))),
                  normals[1], normals[2])
    ELSE CornerOf(normals[1], normals[2], normals[3])

\* C23: the classification insert returns to a hit, and the plane of the
\* result, are given by the normals accepted in the call and their number:
\* None for none, Plane(n) for one, the Crease of the two in the order of
\* insertion for two, the Corner of the three for three; the plane of the
\* result is None exactly when no normal was accepted.
C23_PlaneByAcceptedNormals ==
    (pc \in {"loop", "done"} /\ Len(AcceptedNormals) <= 3) =>
        /\ planes = AcceptedNormals
        /\ on_hits > 0 => slide.plane = Classified(AcceptedNormals)
        /\ pc = "done" =>
             /\ result.plane = Classified(AcceptedNormals)
             /\ result.plane = None <=> \A i \in 1..Len(log) : ~Accepted(log[i])

\* A call has returned a Crease after three hits, of which insert turned
\* down the second.
C23_Witness ==
    /\ pc = "done"
    /\ Len(log) >= 3
    /\ log[1].cast # None /\ Accepted(log[1])
    /\ log[2].cast # None /\ ~Accepted(log[2])
    /\ log[3].cast # None /\ Accepted(log[3])
    /\ Len(AcceptedNormals) = 2
    /\ result.plane.type = "Crease"
    /\ result.plane.planes = <<DirOf(0, 1, 0), DirOf(-1, 0, 0)>>

\* C24: any two normals insert has accepted one after the other have a
\* non-zero cross product, so the insert of a valid normal never fails in
\* plane_type.
C24_CreaseNeverFails ==
    /\ Len(planes) >= 2 => VCross(DirVec(planes[1]), DirVec(planes[2])) # VZero
    /\ (probe.type = "insert" /\ Dir3New(probe.normal) # NoDir) => probe.result # Panic

----------------------------------------------------------------------------
(* Properties of the movement tick                                         *)

\* One of the sweeps `entries` made at one of `places` hit a walkable surface.
WalkableHitAt(entries, places) ==
    \E i \in 1..Len(entries) :
        /\ entries[i].at \in places
        /\ IsHit(entries[i].cast)
        /\ IsWalkable(entries[i].cast.normal, character.up, ExampleWalkableAngle)

\* One of the step attempts `tried` succeeded.
SteppedUp(tried) == \E i \in 1..Len(tried) : tried[i].result # None

\* The step that ends a tick of a character without Sensor.
TickEnds == pc = "return" /\ pc' = "ticked"

\* C25: when a tick ends the ground is Some exactly when the tick found a
\* walkable surface: in the pre-sweep, in a hit of move_and_slide, by a
\* step-up that succeeded, or in the fallback ground_check; the ground_check
\* is made exactly for a character that was grounded when the tick started
\* and for which none of the others found ground, so a character that was
\* in the air is never grounded by it and a grounded one for which all of
\* them fail ends the tick in the air.
C25_GroundIffFound ==
    [][TickEnds =>
         LET found == \/ WalkableHitAt(log', {"presweep", "slide"})
                      \/ SteppedUp(attempts')
             probed == \E i \in 1..Len(log') : log'[i].at = "ground_check"
         IN  /\ probed <=> (started.character.ground # None /\ ~found)
             /\ character'.ground # None <=>
                    (found \/ WalkableHitAt(log', {"ground_check"}))
             /\ found => character'.ground = new_ground]_vars

\* Of two characters that found nothing while they moved, the one that was
\* grounded was put back on a slope of just under 45 degrees by the
\* ground_check, or lost the ground when the check found a steeper one; the
\* one that was in the air was not probed.
C25_Witness ==
    /\ pc = "ticked"
    /\ ~args.has_sensor
    /\ ~WalkableHitAt(log, {"presweep", "slide"})
    /\ ~SteppedUp(attempts)
    /\ log # <<>>
    /\ log[Len(log)].at = "ground_check"
    /\ started.character.ground # None
    /\ \/ /\ log[Len(log)].cast = [normal |-> VInt(-10000, 10001, 0),
                                   distance |-> Dist(R(1, 20), ROne)]
          /\ character.ground = DirOf(-10000, 10001, 0)
       \/ /\ IsHit(log[Len(log)].cast)
          /\ log[Len(log)].cast.normal = VInt(-2, 1, 0)
          /\ character.ground = None
          /\ jumps = 0

\* C26: after a step-up that succeeded, in the pre-sweep or in the closure,
\* the velocity of the character and the velocity the next substep is swept
\* with have no component along up.
C26_StepUpZeroesUpVelocity ==
    [][(StepAttempted /\ attempts'[Len(attempts')].result # None) =>
         /\ VDot(character'.velocity, DirVec(character.up)) = RZero
         /\ VDot(velocity', DirVec(character.up)) = RZero]_vars

----------------------------------------------------------------------------
(* Properties of jump and jump_input                                       *)

\* The component of v along the unit vector up.
AlongUp(v, up) == VDot(v, UnitVec(up))

\* C27: after jump(impulse) the velocity along up is max(old velocity along
\* up, 0) + impulse and the part of the velocity at right angles to up is
\* what it was.
C27_JumpOverridesFall ==
    probe.type = "jump" =>
        LET before == probe.before
        IN  /\ AlongUp(character.velocity, before.up) =
                   RAdd(RMax(AlongUp(before.velocity, before.up), RZero), probe.impulse)
            /\ Horizontal(character.velocity, before.up) =
                   Horizontal(before.velocity, before.up)

\* A character falling at 3 along up = (0, 0, 1) has jumped with the example
\* impulse and rises at 6; one rising at 3 along (0, 1, 0) rises at 9.
C27_Witness ==
    /\ probe.type = "jump"
    /\ probe.impulse = ExampleJumpImpulse
    /\ \/ /\ probe.before.velocity = VInt(1, -2, -3)
          /\ probe.before.up = DirOf(0, 0, 1)
          /\ character.velocity = VInt(1, -2, 6)
       \/ /\ probe.before.velocity = VInt(0, 3, 1)
          /\ probe.before.up = DirOf(0, 1, 0)
          /\ character.velocity = VInt(0, 9, 1)

\* C28: jump_input gives its impulse only to a grounded character and
\* leaves it in the air; the ground is set again only by the end of a
\* movement tick; so between two movement ticks a character receives at most
\* one jump impulse, however often jump_input runs.
C28_OneJumpBetweenTicks ==
    /\ [](jumps <= 1)
    /\ [][jumps' = jumps + 1 => (Grounded(character) /\ ~Grounded(character'))]_vars
    /\ [][(~Grounded(character) /\ Grounded(character')) =>
              (pc = "return" /\ pc' = "ticked" /\ ticks' = ticks + 1)]_vars

\* A character that found ground in the tick has jumped after it and is in
\* the air, rising at the example impulse or faster.
C28_Witness ==
    /\ pc = "ticked"
    /\ ticks = 1
    /\ new_ground # None
    /\ jumps = 1
    /\ ~Grounded(character)
    /\ RLeq(ExampleJumpImpulse, AlongUp(character.velocity, character.up))

\* A Dir3 within the walkable angle of the character's up axis.
WalkableGround(n) ==
    /\ n # NoDir
    /\ ~Degenerate(DirVec(n))
    /\ AngleLess(AngleBetween(DirVec(character.up), DirVec(n)), ExampleWalkableAngle)

\* C30: whenever the character's ground is Some(n), before, during and after
\* a movement tick and after a jump, n is a valid direction whose angle to
\* the up axis is below the walkable angle; so is the ground the tick has
\* found so far.
C30_GroundIsWalkable ==
    /\ character.ground # None => WalkableGround(character.ground)
    /\ new_ground # None => WalkableGround(new_ground)

\* The character stands on a floor it has stepped up to, after a step
\* attempt of the same tick was turned down for landing on a surface with a
\* degenerate normal or on a slope of 63.4 degrees.
C30_Witness ==
    /\ pc = "ticked"
    /\ character.ground = DirOf(0, 1, 0)
    /\ Len(attempts) >= 2
    /\ attempts[1].climbed # None
    /\ attempts[1].climbed.hit.normal \in {VInt(0, 0, 0), VInt(-2, 1, 0)}
    /\ attempts[1].result = None
    /\ LastAttempt.result # None

----------------------------------------------------------------------------
(* Properties of toggle_fly_cam                                            *)

\* The fly mode: the character Frozen, the camera a FlyingCamera that does
\* not follow.
FlyComponents == [Frozen |-> TRUE, FlyingCamera |-> TRUE, FollowOrigin |-> FALSE]

\* C29: after any number of ToggleFlyCam events the character is Frozen
\* exactly when its camera has FlyingCamera, and the camera has exactly one
\* of FlyingCamera and FollowOrigin; a toggle leads from the initial
\* components to the fly mode and the next one back; the movement system
\* starts no tick for a Frozen character and leaves its Transform alone.
C29_FrozenIffFlying ==
    /\ [](components.Frozen <=> components.FlyingCamera)
    /\ [](components.FlyingCamera <=> ~components.FollowOrigin)
    /\ [][components' # components =>
              /\ components = DefaultComponents => components' = FlyComponents
              /\ components # DefaultComponents => components' = DefaultComponents]_vars
    /\ [][components.Frozen =>
              (pc' = pc /\ ticks' = ticks /\ transform' = transform /\ started' = started)]_vars

\* The fly camera was switched on before the character was ever moved.
C29_Witness ==
    /\ pc = "tick"
    /\ ticks = 0
    /\ components = FlyComponents
    /\ Grounded(character)

====
